---- MODULE Spec2Model ----
(***************************************************************************)
(* A model of the RAG food application: the hosted vector-store adapter    *)
(* with its retry wrapper (lib/providers/database.ts), the local fallback  *)
(* store with its cosine ranking and its file (same file), the query       *)
(* actions with their lazily built provider singletons                     *)
(* (app/actions/query-actions), the ingestion job embedFoodsData and       *)
(* getEmbeddingStatus (app/actions/embedding-actions), loadFoodsData (food *)
(* actions), and the page with its question box (app/page.tsx,             *)
(* components/QuestionSection).                                            *)
(*                                                                         *)
(* Times are in milliseconds.  Texts are sequences of tokens.  Scores and  *)
(* distances are in tenths (ScoreOne stands for 1.0).                      *)
(***************************************************************************)
EXTENDS Integers, Sequences, FiniteSets, TLC

\* ------------------------------------------------------------------------
\* Program constants
\* ------------------------------------------------------------------------
RETRY_COUNT == 3
RETRY_DELAY == 1000
DEFAULT_RAG_RESULTS == 3
batchSize == 5

\* ------------------------------------------------------------------------
\* Bounds of the model
\* ------------------------------------------------------------------------
\* largest nResults a caller of the hosted adapter asks for
MaxK == 2
\* most records handed to one addDocuments call of the local store, and
\* most records ingested when questions and ingestion share the local store
MaxBatch == 2
\* most requests started in one run of the query module
MaxRequests == 2
\* most records foods.json holds
MaxFoods == 6
\* most embedFoodsData and getEmbeddingStatus invocations in one run
MaxJobs == 2

\* most items foods.json holds when loadFoodsData is called on its own
MaxRaw == 3
\* most questions submitted in one run of the page
MaxSubmits == 2

ScoreOne == 10

null == "null"
\* the null of an object reference
nil == 0

VARIABLES
    \* ---- hosted adapter (UpstashDatabase) ----
    index,          \* this.index: "null" or "set"
    upPc,           \* position of the method in progress
    upCall,         \* the method in progress and its arguments
    attempt,        \* withRetry's loop counter
    lastError,      \* withRetry's lastError
    delays,         \* the delay(ms) calls of the withRetry call in progress
    attempts,       \* what each operation() attempt of this call ended with,
                    \* and what the remote call of a successful one gave
    retryOutcome,   \* what withRetry returned or threw to the method
    upResult,       \* what the method returned or threw to its caller
    \* ---- local store (SimpleVectorDatabase) ----
    documents,      \* this.documents
    dataFile,       \* simple_vector_db.json
    lastCall,       \* the last completed call of the store and its arguments
    inserted,       \* history: the ids added to this store instance, each
                    \* at the place of its first addition
    \* ---- cosineSimilarity called on its own ----
    cosA, cosB,     \* the arguments a and b
    cosResult,      \* what the call returned or threw
    \* ---- embedding actions (ingestion) ----
    ingestDb,       \* dbInstance of the embedding actions
    ingestEmbedding,    \* embeddingInstance of the embedding actions
    ingestInitialized,  \* isInitialized of the embedding actions
    ingestObjs,     \* the store objects the embedding actions created
    remoteIndex,    \* the vectors the hosted index holds
    job,            \* the embedFoodsData invocation in progress
    jobs,           \* invocations started so far
    retrieved,      \* the result of the last search of the ingested store
    \* ---- query actions ----
    config,         \* the validated environment
    dbInstance, embeddingInstance, llmInstance, isInitialized,
    dbObjs,         \* the store objects created so far
    nEmbedding,     \* embedding providers created so far
    nLlm,           \* language-model providers created so far
    req,            \* the requests in flight, one per slot
    started,        \* requests started so far
    \* ---- loadFoodsData called on its own ----
    foodsFile,      \* what fetching foods.json gives
    loaded,         \* what loadFoodsData returned or threw
    \* ---- the page (Home and QuestionSection) ----
    queryState,     \* the queryState of Home
    flow,           \* the invocations of handleQuestionSubmit in progress
    submits         \* invocations started so far

upVars == <<index, upPc, upCall, attempt, lastError, delays, attempts,
            retryOutcome, upResult>>
storeVars == <<documents, dataFile, lastCall, inserted>>
cosVars == <<cosA, cosB, cosResult>>
ingestVars == <<ingestDb, ingestEmbedding, ingestInitialized, ingestObjs,
                remoteIndex, job, jobs, retrieved>>
queryVars == <<config, dbInstance, embeddingInstance, llmInstance,
               isInitialized, dbObjs, nEmbedding, nLlm, req, started>>
loadVars == <<foodsFile, loaded>>
uiVars == <<queryState, flow, submits>>
vars == <<upVars, storeVars, queryVars, cosVars, ingestVars, loadVars, uiVars>>

\* ------------------------------------------------------------------------
\* Texts
\* ------------------------------------------------------------------------
\* String.prototype.toLowerCase on a token
toLowerCase(tok) ==
    CASE tok = "Fruit" -> "fruit"
      [] tok = "Yellow" -> "yellow"
      [] tok = "Sweet" -> "sweet"
      [] OTHER -> tok

\* token tok has word w as a substring
TokenHas(tok, w) ==
    \/ tok = w
    \/ tok = "fruits" /\ w = "fruit"

\* text.toLowerCase().includes(w)
includes(text, w) ==
    \E i \in 1..Len(text) : TokenHas(toLowerCase(text[i]), w)

AttributeWords == {"yellow", "sweet", "fruit"}

\* ------------------------------------------------------------------------
\* Hosted adapter: the remote index as seen through its responses
\* ------------------------------------------------------------------------
RemoteErrors == {"timeout", "rate limited"}

Hit1 == [id |-> "1", document |-> <<"banana", "yellow", "Fruit">>, score |-> 9]
Hit2 == [id |-> "2", document |-> <<"lemon", "yellow">>, score |-> 7]
Hit3 == [id |-> "3", document |-> <<"chili", "spicy">>, score |-> 0]
RankedHits == <<Hit1, Hit2, Hit3>>

\* the subsequence of s at the positions in keep
RECURSIVE SubSeqAt(_, _, _)
SubSeqAt(s, keep, i) ==
    IF i > Len(s) THEN <<>>
    ELSE IF i \in keep THEN <<s[i]>> \o SubSeqAt(s, keep, i + 1)
    ELSE SubSeqAt(s, keep, i + 1)

\* what index.query can resolve with for a given topK: hits in rank order
RemoteResponses(topK) ==
    {SubSeqAt(RankedHits, keep, 1) :
        keep \in {k \in SUBSET (1..Len(RankedHits)) : Cardinality(k) <= topK}}

TextQueries == {<<"what", "fruits", "are", "yellow">>}
VectorQuery == [vector |-> "v"]
Queries == {[data |-> q] : q \in TextQueries} \cup {VectorQuery}
IsText(query) == "data" \in DOMAIN query

\* ------------------------------------------------------------------------
\* Hosted adapter: withRetry
\* ------------------------------------------------------------------------
RECURSIVE Pow2(_)
Pow2(n) == IF n = 0 THEN 1 ELSE 2 * Pow2(n - 1)

\* a doubling that starts one step late
DelayTimeLate(n) == RETRY_DELAY * Pow2(n)
\* RETRY_DELAY * Math.pow(2, attempt - 1)
DelayTime(n) == RETRY_DELAY * Pow2(n - 1)

\* a wrapper that waits after every failed attempt, the last included
MayRetryAlways(n) == TRUE
\* if (attempt < RETRY_COUNT): a wait and another attempt follow
MayRetry(n) == n < RETRY_COUNT

\* a wrapper that keeps the first error it saw
KeepFirstError(prev, e) == IF prev = null THEN e ELSE prev
\* lastError = error as Error
CatchError(prev, e) == e

\* new Error(`Operation failed after ${RETRY_COUNT} attempts. Last error: ...`)
ExhaustedError(last) ==
    [name |-> "Error",
     message |-> <<"Operation failed after", RETRY_COUNT,
                   "attempts. Last error:", last>>]

NotInitializedError ==
    [name |-> "Error", message |-> <<"Upstash Vector not initialized">>]

NoCall == [op |-> "none"]
NoOutcome == [kind |-> "none"]
Returned(v) == [kind |-> "returned", value |-> v]
Threw(e) == [kind |-> "thrown", error |-> e]

\* ------------------------------------------------------------------------
\* Hosted adapter: the methods
\* ------------------------------------------------------------------------
\* documents.map((text, i) => ({id, data, metadata})) of addDocuments
UpsertVectors(docs, ids) ==
    [i \in 1..Len(docs) |->
        [id |-> ids[i],
         data |-> docs[i],
         metadata |->
            [document |-> docs[i],
             id |-> ids[i],
             type |-> IF includes(docs[i], "fruit") THEN "Fruit" ELSE "undefined",
             color |-> IF includes(docs[i], "yellow") THEN "yellow" ELSE "undefined",
             taste |-> IF includes(docs[i], "sweet") THEN "sweet" ELSE "undefined"]]]

\* a request that carries the text also as its vector
QueryOptionsBoth(query, nResults) ==
    [topK |-> nResults * 2, includeMetadata |-> TRUE,
     data |-> IF IsText(query) THEN query.data ELSE query.vector,
     vector |-> IF IsText(query) THEN query.data ELSE query.vector]
\* the request index.query is sent: data for a text, vector for a vector
QueryOptions(query, nResults) ==
    IF IsText(query)
    THEN [topK |-> nResults * 2, includeMetadata |-> TRUE, data |-> query.data]
    ELSE [topK |-> nResults * 2, includeMetadata |-> TRUE, vector |-> query.vector]

\* a filter predicate that keeps every candidate
KeepsEveryHit(query, hit) == TRUE
\* the predicate of searchResults.filter
KeepsHit(query, hit) ==
    IsText(query) =>
        \A w \in AttributeWords :
            includes(query.data, w) => includes(hit.document, w)

RECURSIVE FilterHits(_, _)
FilterHits(query, hits) ==
    IF hits = <<>> THEN <<>>
    ELSE (IF KeepsHit(query, Head(hits)) THEN <<Head(hits)>> ELSE <<>>)
         \o FilterHits(query, Tail(hits))

\* Array.prototype.slice(0, n)
Slice(s, n) == SubSeq(s, 1, IF Len(s) < n THEN Len(s) ELSE n)

\* a result whose distances are the scores themselves
ShapeScores(results) ==
    [documents |-> [i \in 1..Len(results) |-> results[i].document],
     ids |-> [i \in 1..Len(results) |-> results[i].id],
     distances |-> [i \in 1..Len(results) |-> results[i].score],
     metadatas |-> [i \in 1..Len(results) |->
                       [document |-> results[i].document]]]
\* the RagResult built from the filtered hits
ShapeResult(results) ==
    [documents |-> [i \in 1..Len(results) |-> results[i].document],
     ids |-> [i \in 1..Len(results) |-> results[i].id],
     distances |-> [i \in 1..Len(results) |-> ScoreOne - results[i].score],
     metadatas |-> [i \in 1..Len(results) |->
                       [document |-> results[i].document]]]

UpsertBatches ==
    {[documents |-> <<Hit1.document>>, ids |-> <<"1">>],
     [documents |-> <<Hit2.document, Hit3.document>>, ids |-> <<"2", "3">>]}

UpCalls ==
    {[op |-> "upsert", vectors |-> UpsertVectors(b.documents, b.ids)] :
        b \in UpsertBatches}
    \cup {[op |-> "query", query |-> q, nResults |-> n,
           options |-> QueryOptions(q, n)] : q \in Queries, n \in 1..MaxK}
    \cup {[op |-> "probe", options |-> [topK |-> 1000, includeMetadata |-> FALSE]]}

\* what the remote call of one operation() attempt can resolve with
Responses(call) ==
    IF call.op = "upsert" THEN {"upserted"}
    ELSE RemoteResponses(call.options.topK)

\* what operation() returns when its remote call resolved with resp
AttemptValue(call, resp) ==
    IF call.op = "query"
    THEN Slice(FilterHits(call.query, resp), call.nResults)
    ELSE resp

\* what one operation() attempt of the call can resolve with
Resolutions(call) == {AttemptValue(call, resp) : resp \in Responses(call)}

\* what the method makes of the value withRetry returned
MethodValue(call, v) ==
    CASE call.op = "upsert" -> "void"
      [] call.op = "query" -> ShapeResult(v)
      [] call.op = "probe" -> [i \in 1..Len(v) |-> v[i].id]

\* a method that lets the error of every call through
Rethrows(call, e) == Threw(e)
\* what the method makes of the error withRetry threw
MethodFailure(call, e) ==
    IF call.op = "probe" THEN Returned(<<>>) ELSE Threw(e)

\* UpstashDatabase.initialize
UpInitialize ==
    /\ upPc = "idle"
    /\ IF config.UPSTASH_CREDENTIALS
       THEN /\ index' = "set"
            /\ upResult' = Returned("void")
       ELSE /\ index' = index
            /\ upResult' = Threw([name |-> "Error",
                    message |-> <<"Upstash Vector URL and TOKEN are required">>])
    /\ upCall' = [op |-> "initialize"]
    /\ UNCHANGED <<upPc, attempt, lastError, delays, attempts, retryOutcome>>
    /\ UNCHANGED <<storeVars, queryVars, cosVars, ingestVars, loadVars, uiVars>>

\* addDocuments, query, getExistingIds up to the first operation() of withRetry
UpBegin(call) ==
    /\ upPc = "idle"
    /\ upCall' = call
    /\ lastError' = null
    /\ delays' = <<>>
    /\ attempts' = <<>>
    /\ retryOutcome' = NoOutcome
    /\ IF index = null
       THEN /\ upResult' = Threw(NotInitializedError)
            /\ UNCHANGED <<upPc, attempt>>
       ELSE /\ upResult' = NoOutcome
            /\ attempt' = 1
            /\ upPc' = "attempting"
    /\ UNCHANGED <<index, storeVars, queryVars, cosVars, ingestVars, loadVars, uiVars>>

\* return await operation(): the attempt succeeds and the method returns
OperationResolves ==
    /\ upPc = "attempting"
    /\ \E resp \in Responses(upCall) :
          LET v == AttemptValue(upCall, resp)
          IN  /\ attempts' = Append(attempts, [ok |-> TRUE, value |-> v,
                                               raw |-> resp])
              /\ retryOutcome' = Returned(v)
              /\ upResult' = Returned(MethodValue(upCall, v))
    /\ upPc' = "idle"
    /\ UNCHANGED <<index, upCall, attempt, lastError, delays>>
    /\ UNCHANGED <<storeVars, queryVars, cosVars, ingestVars, loadVars, uiVars>>

\* attempt++ and the loop test; past RETRY_COUNT the wrapper throws
NextAttempt(last) ==
    /\ attempt' = attempt + 1
    /\ IF attempt + 1 <= RETRY_COUNT
       THEN /\ upPc' = "attempting"
            /\ UNCHANGED <<retryOutcome, upResult>>
       ELSE /\ upPc' = "idle"
            /\ retryOutcome' = Threw(ExhaustedError(last))
            /\ upResult' = MethodFailure(upCall, ExhaustedError(last))

\* the catch block of withRetry
OperationRejects(e) ==
    /\ upPc = "attempting"
    /\ e \in RemoteErrors
    /\ attempts' = Append(attempts, [ok |-> FALSE, error |-> e])
    /\ lastError' = CatchError(lastError, e)
    /\ IF MayRetry(attempt)
       THEN /\ delays' = Append(delays, DelayTime(attempt))
            /\ upPc' = "delaying"
            /\ UNCHANGED <<attempt, retryOutcome, upResult>>
       ELSE /\ delays' = delays
            /\ NextAttempt(lastError')
    /\ UNCHANGED <<index, upCall>>
    /\ UNCHANGED <<storeVars, queryVars, cosVars, ingestVars, loadVars, uiVars>>

\* the timer of delay(ms) fires
DelayElapses ==
    /\ upPc = "delaying"
    /\ NextAttempt(lastError)
    /\ UNCHANGED <<index, upCall, lastError, delays, attempts>>
    /\ UNCHANGED <<storeVars, queryVars, cosVars, ingestVars, loadVars, uiVars>>

\* ------------------------------------------------------------------------
\* Local store (SimpleVectorDatabase)
\* ------------------------------------------------------------------------
StoreIds == {"A", "B", "C"}
StoreTexts == {<<"apple">>, <<"banana", "yellow">>}
\* texts stored with an embedding that has no direction: all zeros, or the
\* empty array
FlatTexts == {<<"water">>, <<"cherry">>}
\* the embedding a text is stored with
EmbeddingOf(text) ==
    CASE text = <<"apple">> -> <<1, 0>>
      [] text = <<"banana", "yellow">> -> <<0, 1>>
      [] text = <<"water">> -> <<0, 0>>
      [] OTHER -> <<>>

\* the (documents, embeddings, ids) triples of an addDocuments call
AddCalls ==
    UNION {
        {[documents |-> [i \in 1..n |-> r[i].text],
          embeddings |-> [i \in 1..n |-> EmbeddingOf(r[i].text)],
          ids |-> [i \in 1..n |-> r[i].id]] :
            r \in [1..n -> [id : StoreIds, text : StoreTexts]]} :
        n \in 1..MaxBatch}
    \cup {[documents |-> <<t>>, embeddings |-> <<EmbeddingOf(t)>>,
           ids |-> <<"C">>] : t \in FlatTexts}

\* a filter that removes nothing
KeepAll(docs, id) == docs
\* Array.prototype.filter(doc => doc.id !== id)
RECURSIVE WithoutId(_, _)
WithoutId(docs, id) ==
    IF docs = <<>> THEN <<>>
    ELSE (IF Head(docs).id # id THEN <<Head(docs)>> ELSE <<>>)
         \o WithoutId(Tail(docs), id)

\* a body of the loop that pushes without removing the record of the same id
PushOnly(docs, rec) == Append(docs, rec)
\* one turn of the loop of addDocuments: filter, then push
Upsert(docs, rec) == Append(WithoutId(docs, rec.id), rec)

\* the loop of addDocuments from turn i on
RECURSIVE AddLoop(_, _, _)
AddLoop(docs, call, i) ==
    IF i > Len(call.documents) THEN docs
    ELSE AddLoop(Upsert(docs, [id |-> call.ids[i],
                               text |-> call.documents[i],
                               embedding |-> call.embeddings[i]]),
                 call, i + 1)

IdsOf(docs) == {docs[i].id : i \in 1..Len(docs)}
CallIds(call) == {call.ids[i] : i \in 1..Len(call.ids)}

\* simple_vector_db.json when it does not exist
NoFile == [exists |-> FALSE]
\* JSON.stringify(data): the documents array, each record written as the
\* values of its keys id, text, embedding in that order
JSONStringify(data) ==
    <<"documents",
      [i \in 1..Len(data.documents) |->
          <<data.documents[i].id, data.documents[i].text,
            data.documents[i].embedding>>]>>
\* JSON.parse of a file's content
JSONParse(json) ==
    IF Len(json) = 2 /\ json[1] = "documents"
    THEN [documents |-> [i \in 1..Len(json[2]) |->
                            [id |-> json[2][i][1], text |-> json[2][i][2],
                             embedding |-> json[2][i][3]]]]
    ELSE [documents |-> <<>>]
\* a save that writes an empty documents array
FileOfNothing(docs) == [exists |-> TRUE, json |-> <<"documents", <<>>>>]
\* simple_vector_db.json as saveToFile writes it
FileOf(docs) == [exists |-> TRUE, json |-> JSONStringify([documents |-> docs])]
\* data.documents || [] of the file read by initialize
DocumentsOf(file) == JSONParse(file.json).documents

\* the ids of ids that are not in seen, each once, in order
RECURSIVE NewIds(_, _)
NewIds(seen, ids) ==
    IF ids = <<>> THEN <<>>
    ELSE IF \E i \in 1..Len(seen) : seen[i] = Head(ids)
         THEN NewIds(seen, Tail(ids))
         ELSE <<Head(ids)>> \o NewIds(Append(seen, Head(ids)), Tail(ids))

\* new SimpleVectorDatabase(): a fresh instance in a process that starts
SimpleConstruct ==
    /\ documents' = <<>>
    /\ lastCall' = [op |-> "constructor"]
    /\ inserted' = <<>>
    /\ UNCHANGED dataFile
    /\ UNCHANGED <<upVars, queryVars, cosVars, ingestVars, loadVars, uiVars>>

\* SimpleVectorDatabase.initialize
SimpleInitialize ==
    /\ documents' = IF dataFile.exists THEN DocumentsOf(dataFile) ELSE documents
    /\ lastCall' = [op |-> "initialize"]
    /\ inserted' = IF dataFile.exists
                   THEN [i \in 1..Len(documents') |-> documents'[i].id]
                   ELSE inserted
    /\ UNCHANGED dataFile
    /\ UNCHANGED <<upVars, queryVars, cosVars, ingestVars, loadVars, uiVars>>

\* SimpleVectorDatabase.addDocuments, saveToFile included
SimpleAddDocuments(call) ==
    /\ documents' = AddLoop(documents, call, 1)
    /\ dataFile' = FileOf(documents')
    /\ lastCall' = [op |-> "addDocuments", documents |-> call.documents,
                    embeddings |-> call.embeddings, ids |-> call.ids,
                    present |-> CallIds(call) \cap IdsOf(documents)]
    /\ inserted' = inserted \o NewIds(inserted, call.ids)
    /\ UNCHANGED <<upVars, queryVars, cosVars, ingestVars, loadVars, uiVars>>

\* SimpleVectorDatabase.getExistingIds
SimpleGetExistingIds ==
    /\ lastCall' = [op |-> "getExistingIds",
                    result |-> [i \in 1..Len(documents) |-> documents[i].id]]
    /\ UNCHANGED <<documents, dataFile, inserted>>
    /\ UNCHANGED <<upVars, queryVars, cosVars, ingestVars, loadVars, uiVars>>

\* ------------------------------------------------------------------------
\* Local store: query
\* ------------------------------------------------------------------------
\* a sum of products that reads its first argument only
RECURSIVE DotLeft(_, _)
DotLeft(a, b) ==
    IF a = <<>> THEN 0 ELSE Head(a) * Head(a) + DotLeft(Tail(a), Tail(b))

RECURSIVE Dot(_, _)
Dot(a, b) == IF a = <<>> THEN 0 ELSE Head(a) * Head(b) + Dot(Tail(a), Tail(b))

\* Math.sqrt on the sums of squares the model's vectors have (all squares)
Sqrt(n) == CHOOSE r \in 0..n : r * r = n

\* a similarity that is 1 where a magnitude is zero
CosineZeroAsOne(a, b) ==
    IF Len(a) # Len(b) THEN "mismatch"
    ELSE IF Sqrt(Dot(a, a)) = 0 \/ Sqrt(Dot(b, b)) = 0 THEN ScoreOne
    ELSE (ScoreOne * Dot(a, b)) \div (Sqrt(Dot(a, a)) * Sqrt(Dot(b, b)))

\* cosineSimilarity in tenths; "mismatch" stands for the thrown length error
cosineSimilarity(a, b) ==
    IF Len(a) # Len(b) THEN "mismatch"
    ELSE IF Sqrt(Dot(a, a)) = 0 \/ Sqrt(Dot(b, b)) = 0 THEN 0
    ELSE (ScoreOne * Dot(a, b)) \div (Sqrt(Dot(a, a)) * Sqrt(Dot(b, b)))

\* similarities.sort((a, b) => b.similarity - a.similarity): a stable sort,
\* written as insertion of each record behind those at least as similar
RECURSIVE InsertRanked(_, _)
InsertRanked(sorted, r) ==
    IF sorted = <<>> THEN <<r>>
    ELSE IF Head(sorted).similarity >= r.similarity
         THEN <<Head(sorted)>> \o InsertRanked(Tail(sorted), r)
         ELSE <<r>> \o sorted

\* a sort that leaves the array as it is
Unsorted(s) == s

RECURSIVE SortRanked(_)
SortRanked(s) ==
    IF s = <<>> THEN <<>>
    ELSE InsertRanked(SortRanked(SubSeq(s, 1, Len(s) - 1)), s[Len(s)])

LengthError == [name |-> "Error", message |-> <<"Vectors must have the same length">>]
TextQueryError ==
    [name |-> "Error",
     message |-> <<"SimpleVectorDatabase does not support text queries.">>]

\* SimpleVectorDatabase.query on a store holding docs
SimpleQuery(docs, query, nResults) ==
    IF Len(docs) = 0
    THEN Returned([documents |-> <<>>, ids |-> <<>>, distances |-> <<>>])
    ELSE IF IsText(query) THEN Threw(TextQueryError)
    ELSE IF \E i \in 1..Len(docs) : Len(docs[i].embedding) # Len(query.vector)
    THEN Threw(LengthError)
    ELSE LET similarities ==
                 [i \in 1..Len(docs) |->
                     [id |-> docs[i].id, text |-> docs[i].text,
                      similarity |-> cosineSimilarity(query.vector, docs[i].embedding),
                      distance |-> ScoreOne
                          - cosineSimilarity(query.vector, docs[i].embedding)]]
             topResults == Slice(SortRanked(similarities), nResults)
         IN  Returned([documents |-> [i \in 1..Len(topResults) |-> topResults[i].text],
                       ids |-> [i \in 1..Len(topResults) |-> topResults[i].id],
                       distances |-> [i \in 1..Len(topResults) |->
                                         topResults[i].distance]])

\* the queryEmbedding arguments the store is queried with
LocalVectors == {<<1, 0>>, <<3, 4>>, <<0, 0>>, <<>>}
LocalQueries ==
    {[vector |-> v] : v \in LocalVectors} \cup {[data |-> q] : q \in TextQueries}

\* SimpleVectorDatabase.query
SimpleQueryCall(query, nResults) ==
    /\ lastCall' = [op |-> "query", query |-> query, nResults |-> nResults,
                    result |-> SimpleQuery(documents, query, nResults)]
    /\ UNCHANGED <<documents, dataFile, inserted>>
    /\ UNCHANGED <<upVars, queryVars, cosVars, ingestVars, loadVars, uiVars>>

\* the vectors cosineSimilarity is called with on its own
Vectors ==
    {<<>>, <<0>>, <<1>>, <<2>>, <<1, 0>>, <<0, 1>>, <<3, 4>>, <<4, 3>>,
     <<0 - 1, 0>>, <<0 - 3, 4>>, <<0, 0>>, <<1, 0, 0>>}

\* a call cosineSimilarity(a, b)
CosineCall ==
    /\ cosResult = NoOutcome
    /\ cosResult' = IF Len(cosA) # Len(cosB)
                    THEN Threw(LengthError)
                    ELSE Returned(cosineSimilarity(cosA, cosB))
    /\ UNCHANGED <<cosA, cosB>>
    /\ UNCHANGED <<upVars, storeVars, queryVars, ingestVars, loadVars, uiVars>>

\* ------------------------------------------------------------------------
\* Query actions: configuration and the provider factories
\* ------------------------------------------------------------------------
\* the environments the application can be started in; a credential is TRUE
\* when it is set, and is left out of the choice when its provider is not
\* the selected one
Configs ==
    {c \in [VECTOR_DB_TYPE : {"upstash", "simple"},
            UPSTASH_CREDENTIALS : BOOLEAN,
            LLM_PROVIDER : {"ollama", "groq"},
            GROQ_API_KEY : BOOLEAN,
            EMBEDDING_PROVIDER : {"ollama", "undefined"}] :
        /\ c.VECTOR_DB_TYPE = "simple" => c.UPSTASH_CREDENTIALS
        /\ c.LLM_PROVIDER = "ollama" => c.GROQ_API_KEY}

Slots == {1, 2}

\* the records simple_vector_db.json holds when it exists
SampleStore ==
    <<[id |-> "1", text |-> Hit1.document, embedding |-> <<1, 0>>],
      [id |-> "2", text |-> Hit2.document, embedding |-> <<3, 4>>]>>

\* the vectors getEmbedding resolves with
QueryVectors == {<<1, 0>>, <<0 - 1, 0>>}

EmptyQuestion == <<>>
Questions == {EmptyQuestion} \cup TextQueries
EntryPoints == {"ragQuery", "getRagSearchResults", "getLlmResponse"}

\* createVectorDatabase: the object new UpstashDatabase() / new SimpleVectorDatabase()
createVectorDatabase ==
    [kind |-> IF config.VECTOR_DB_TYPE = "upstash" THEN "upstash" ELSE "simple",
     ready |-> FALSE,      \* index set / file loaded by a completed initialize()
     docs |-> <<>>,        \* this.documents of the local store
     initBy |-> {}]        \* the requests that invoked initialize() on it

\* whether createEmbeddingProvider returns (it throws on any other provider)
EmbeddingProviderSupported == config.EMBEDDING_PROVIDER \in {"ollama", "clarifai"}
UnsupportedEmbeddingError ==
    [name |-> "Error",
     message |-> <<"Unsupported embedding provider:", config.EMBEDDING_PROVIDER>>]

\* a constructor that does not look at the key
LlmAlwaysConstructs == TRUE
\* whether createLlmProvider returns (new GroqLlm() throws without its key)
LlmProviderConstructs == config.LLM_PROVIDER = "ollama" \/ config.GROQ_API_KEY
GroqKeyError == [name |-> "Error", message |-> <<"Groq API key is required">>]

\* how a call of initialize() on a store object can end: the hosted adapter
\* fails exactly without its credentials, the local store when its file
\* cannot be read or parsed
InitializeResults(obj) ==
    IF obj.kind = "upstash"
    THEN IF config.UPSTASH_CREDENTIALS THEN {"ok"} ELSE {"failed"}
    ELSE {"ok", "failed"}
InitializeError(obj) ==
    IF obj.kind = "upstash"
    THEN [name |-> "Error",
          message |-> <<"Upstash Vector URL and TOKEN are required">>]
    ELSE [name |-> "Error",
          message |-> <<"Simple Vector DB initialization failed">>]

\* ------------------------------------------------------------------------
\* Query actions: initializeProviders
\* The module's globals are passed as a record G
\*   [db, embedding, llm, isInitialized, objs, nEmbedding, nLlm]
\* and each piece returns the globals it leaves and what it did.
\* ------------------------------------------------------------------------
Globals ==
    [db |-> dbInstance, embedding |-> embeddingInstance, llm |-> llmInstance,
     isInitialized |-> isInitialized, objs |-> dbObjs,
     nEmbedding |-> nEmbedding, nLlm |-> nLlm]

\* a guard that creates a provider on every call
AlwaysCreate(handle) == TRUE
\* if (!dbInstance), if (!embeddingInstance), if (!llmInstance)
NeedsCreate(handle) == handle = nil

\* a catch block that forgets to clear the flag and the store handle
ResetProvidersOnly(G) ==
    [G EXCEPT !.embedding = nil, !.llm = nil]
\* the catch block of initializeProviders
ResetInstances(G) ==
    [G EXCEPT !.db = nil, !.embedding = nil, !.llm = nil, !.isInitialized = FALSE]

\* lines 29-43: create the embedding and LLM providers, return the handles
CreateProviders(G, did) ==
    IF NeedsCreate(G.embedding) /\ ~EmbeddingProviderSupported
    THEN [G |-> ResetInstances(G), status |-> "thrown",
          error |-> UnsupportedEmbeddingError,
          did |-> did \cup {"createEmbeddingProvider"}]
    ELSE LET G1 == IF NeedsCreate(G.embedding)
                   THEN [G EXCEPT !.embedding = G.nEmbedding + 1,
                                  !.nEmbedding = G.nEmbedding + 1]
                   ELSE G
             did1 == IF NeedsCreate(G.embedding)
                     THEN did \cup {"createEmbeddingProvider"} ELSE did
         IN  IF NeedsCreate(G1.llm) /\ ~LlmProviderConstructs
             THEN [G |-> ResetInstances(G1), status |-> "thrown",
                   error |-> GroqKeyError,
                   did |-> did1 \cup {"createLlmProvider"}]
             ELSE LET G2 == IF NeedsCreate(G1.llm)
                            THEN [G1 EXCEPT !.llm = G1.nLlm + 1,
                                            !.nLlm = G1.nLlm + 1]
                            ELSE G1
                      did2 == IF NeedsCreate(G1.llm)
                              THEN did1 \cup {"createLlmProvider"} ELSE did1
                  IN  [G |-> G2, status |-> "returned",
                       handles |-> [db |-> G2.db, embedding |-> G2.embedding,
                                    llm |-> G2.llm],
                       did |-> did2]

\* a guard that initialises the store on every call
AlwaysInitialize(G) == TRUE
\* if (!isInitialized)
NeedsInitialize(G) == ~G.isInitialized

\* lines 18-27 up to the await: create the store, call its initialize().
\* The body of initialize() has no await, so the object changes at the call.
BeginInitialize(G, rid, result) ==
    LET G1 == IF NeedsCreate(G.db)
              THEN [G EXCEPT !.objs = Append(G.objs, createVectorDatabase),
                             !.db = Len(G.objs) + 1]
              ELSE G
        did1 == IF NeedsCreate(G.db) THEN {"createVectorDatabase"} ELSE {}
    IN  IF NeedsInitialize(G1)
        THEN [G |-> [G1 EXCEPT
                       !.objs[G1.db].initBy = @ \cup {rid},
                       !.objs[G1.db].ready = @ \/ result = "ok",
                       !.objs[G1.db].docs =
                           IF result = "ok" /\ G1.objs[G1.db].kind = "simple"
                              /\ dataFile.exists
                           THEN DocumentsOf(dataFile) ELSE @],
              status |-> "await",
              pending |-> [result |-> result, obj |-> G1.db],
              did |-> did1 \cup {"initialize"}]
        ELSE CreateProviders(G1, did1)

\* lines 25-43 from the await on
ResumeInitialize(G, pending) ==
    IF pending.result = "failed"
    THEN [G |-> ResetInstances(G), status |-> "thrown",
          error |-> InitializeError(G.objs[pending.obj]), did |-> {}]
    ELSE CreateProviders([G EXCEPT !.isInitialized = TRUE], {})

SetGlobals(G) ==
    /\ dbInstance' = G.db
    /\ embeddingInstance' = G.embedding
    /\ llmInstance' = G.llm
    /\ isInitialized' = G.isInitialized
    /\ dbObjs' = G.objs
    /\ nEmbedding' = G.nEmbedding
    /\ nLlm' = G.nLlm

\* ------------------------------------------------------------------------
\* Query actions: ragQuery, getRagSearchResults, getLlmResponse
\* ------------------------------------------------------------------------
ZodError == [name |-> "ZodError", message |-> <<"Question cannot be empty">>]
NullStoreError ==
    [name |-> "TypeError", message |-> <<"Cannot read properties of null">>]
EmbeddingError == [name |-> "Error", message |-> <<"Ollama embedding failed">>]
LlmErrors == {[name |-> "Error", message |-> <<"Ollama LLM failed">>],
              [name |-> "nonError", message |-> <<>>]}
LlmTexts == {"answer"}
NoRelevantInformation == <<"No relevant information found in the database">>

\* error instanceof Error ? error.message : 'Unknown error occurred'
ErrorMessage(err) ==
    IF err.name = "nonError" THEN <<"Unknown error occurred">> ELSE err.message

\* an entry point without its try/catch
Uncaught(err) == [thrown |-> err]
\* the catch block of the three entry points
Caught(err) == [success |-> FALSE, error |-> ErrorMessage(err)]

\* a test that lets an empty result through
NeverEmpty(result) == FALSE
\* searchResults.documents.length === 0
IsEmptyResult(result) == Len(result.documents) = 0

\* QuerySchema.parse: question is a string of at least one character
QuerySchemaAccepts(question) == question # EmptyQuestion

\* the entry points that parse their request with QuerySchema
Validates(fn) == fn \in {"ragQuery", "getRagSearchResults"}

\* documents.join('\n'), as the lines it makes
Join(docs) == IF docs = <<>> THEN << <<>> >> ELSE docs

\* a prompt that leaves the question out
PromptWithoutQuestion(question, contextLines) ==
    << <<"Use the following context to answer the question.">>, <<>>,
       <<"Context:">> >>
    \o contextLines
    \o << <<>>, <<"Question:">>, <<"Answer:">> >>
\* the prompt template, line by line
Prompt(question, contextLines) ==
    << <<"Use the following context to answer the question.">>, <<>>,
       <<"Context:">> >>
    \o contextLines
    \o << <<>>, <<"Question:">> \o question, <<"Answer:">> >>

Contexts == {Join(<<Hit1.document, Hit2.document>>)}

\* a similarity that is not clamped
NoClamp(x) == x
\* Math.max(0, x)
Max0(x) == IF x > 0 THEN x ELSE 0

\* distances?.map(distance => Math.max(0, 1 - distance)) and the rest
RagDetails(result) ==
    [documents |-> result.documents,
     ids |-> result.ids,
     similarities |-> [i \in 1..Len(result.distances) |->
                          Max0(ScoreOne - result.distances[i])],
     resultCount |-> Len(result.documents)]

NoPending == [result |-> "none", obj |-> nil]
NoQuery == [none |-> TRUE]
IdleRequest ==
    [id |-> 0, fn |-> "none", question |-> <<>>, context |-> <<>>,
     pc |-> "idle", pending |-> NoPending,
     db |-> nil, embedding |-> nil, llm |-> nil,
     did |-> {}, query |-> NoQuery, search |-> NoOutcome, prompt |-> <<>>,
     outcome |-> NoOutcome]

\* the entry point returns outcome to its caller; what stays of the request
\* is what it was called with, what it did, what the search gave and the
\* outcome
Finish(r, outcome) ==
    [r EXCEPT !.pc = "done", !.outcome = outcome, !.pending = NoPending,
              !.db = nil, !.embedding = nil, !.llm = nil,
              !.query = NoQuery, !.prompt = <<>>]

\* what db.query(query, DEFAULT_RAG_RESULTS) can settle with, for the store
\* object as it was when the call was made
StoreQueryOutcomes(q) ==
    IF q.kind = "upstash"
    THEN IF ~q.ready THEN {Threw(NotInitializedError)}
         ELSE {Returned(ShapeResult(v)) :
                  v \in Resolutions([op |-> "query", query |-> q.arg,
                                     nResults |-> DEFAULT_RAG_RESULTS,
                                     options |-> QueryOptions(q.arg,
                                                     DEFAULT_RAG_RESULTS)])}
              \cup {Threw(ExhaustedError(e)) : e \in RemoteErrors}
    ELSE {SimpleQuery(q.docs, q.arg, DEFAULT_RAG_RESULTS)}

\* await db.query(arg, DEFAULT_RAG_RESULTS) up to the await
CallQuery(r, arg) ==
    IF r.db = nil THEN Finish(r, Caught(NullStoreError))
    ELSE [r EXCEPT !.pc = "awaitQuery",
                   !.did = @ \cup {"query"},
                   !.query = [arg |-> arg, kind |-> dbObjs[r.db].kind,
                              ready |-> dbObjs[r.db].ready,
                              docs |-> dbObjs[r.db].docs]]

\* await llm.generateResponse(prompt) up to the await
CallLlm(r, contextLines) ==
    [r EXCEPT !.pc = "awaitLlm",
              !.did = @ \cup {"generateResponse"},
              !.prompt = Prompt(r.question, contextLines)]

\* the request after a piece of initializeProviders ended with result ip
AfterInitialize(r, ip) ==
    CASE ip.status = "await" ->
            [r EXCEPT !.pc = "awaitInitialize", !.pending = ip.pending,
                      !.did = @ \cup ip.did]
      [] ip.status = "returned" ->
            [r EXCEPT !.pc = "awaitProviders", !.did = @ \cup ip.did,
                      !.db = ip.handles.db,
                      !.embedding = ip.handles.embedding,
                      !.llm = ip.handles.llm]
      [] ip.status = "thrown" ->
            Finish([r EXCEPT !.did = @ \cup ip.did], Caught(ip.error))

\* the store object whose initialize() a request starting now would call
NextStore == IF dbInstance = nil THEN createVectorDatabase ELSE dbObjs[dbInstance]

\* an entry point is called: validation, then initializeProviders up to its
\* first await
BeginRequest(s, fn, question, context, result) ==
    /\ req[s].pc \in {"idle", "done"}
    /\ result \in InitializeResults(NextStore)
    /\ started' = started + 1
    /\ LET r == [IdleRequest EXCEPT !.id = started + 1, !.fn = fn,
                                    !.question = question, !.context = context]
       IN  IF Validates(fn) /\ ~QuerySchemaAccepts(question)
           THEN /\ req' = [req EXCEPT ![s] = Finish(r, Caught(ZodError))]
                /\ UNCHANGED <<dbInstance, embeddingInstance, llmInstance,
                               isInitialized, dbObjs, nEmbedding, nLlm>>
           ELSE LET ip == BeginInitialize(Globals, r.id, result)
                IN  /\ SetGlobals(ip.G)
                    /\ req' = [req EXCEPT ![s] = AfterInitialize(r, ip)]
    /\ UNCHANGED config
    /\ UNCHANGED <<upVars, storeVars, cosVars, ingestVars, loadVars>>

\* an entry point is called by a client of the actions
StartRequest(s, fn, question, context, result) ==
    /\ started < MaxRequests
    /\ fn \in EntryPoints
    /\ question \in Questions
    /\ context \in (IF fn = "getLlmResponse" THEN Contexts ELSE {<<>>})
    /\ BeginRequest(s, fn, question, context, result)
    /\ UNCHANGED uiVars

\* await dbInstance.initialize() settles: the rest of initializeProviders
InitializeSettles(s) ==
    /\ req[s].pc = "awaitInitialize"
    /\ LET ip == ResumeInitialize(Globals, req[s].pending)
       IN  /\ SetGlobals(ip.G)
           /\ req' = [req EXCEPT ![s] = AfterInitialize(req[s], ip)]
    /\ UNCHANGED <<config, started>>
    /\ UNCHANGED <<upVars, storeVars, cosVars, ingestVars, loadVars, uiVars>>

\* await initializeProviders() settles: the entry point goes on to its
\* first provider call
ProvidersReturn(s) ==
    /\ req[s].pc = "awaitProviders"
    /\ req' = [req EXCEPT ![s] =
                 CASE req[s].fn = "ragQuery" ->
                        [req[s] EXCEPT !.pc = "awaitEmbedding",
                                       !.did = @ \cup {"getEmbedding"}]
                   [] req[s].fn = "getRagSearchResults" ->
                        CallQuery(req[s], [data |-> req[s].question])
                   [] req[s].fn = "getLlmResponse" ->
                        CallLlm(req[s], req[s].context)]
    /\ UNCHANGED <<config, dbInstance, embeddingInstance, llmInstance,
                   isInitialized, dbObjs, nEmbedding, nLlm, started>>
    /\ UNCHANGED <<upVars, storeVars, cosVars, ingestVars, loadVars, uiVars>>

\* embedding.getEmbedding resolves: ragQuery calls db.query with the vector
EmbeddingResolves(s, v) ==
    /\ req[s].pc = "awaitEmbedding"
    /\ v \in QueryVectors
    /\ req' = [req EXCEPT ![s] = CallQuery(req[s], [vector |-> v])]
    /\ UNCHANGED <<config, dbInstance, embeddingInstance, llmInstance,
                   isInitialized, dbObjs, nEmbedding, nLlm, started>>
    /\ UNCHANGED <<upVars, storeVars, cosVars, ingestVars, loadVars, uiVars>>

\* embedding.getEmbedding rejects
EmbeddingRejects(s) ==
    /\ req[s].pc = "awaitEmbedding"
    /\ req' = [req EXCEPT ![s] = Finish(req[s], Caught(EmbeddingError))]
    /\ UNCHANGED <<config, dbInstance, embeddingInstance, llmInstance,
                   isInitialized, dbObjs, nEmbedding, nLlm, started>>
    /\ UNCHANGED <<upVars, storeVars, cosVars, ingestVars, loadVars, uiVars>>

\* db.query settles: the empty-result test, then the result or the LLM call
QuerySettles(s) ==
    /\ req[s].pc = "awaitQuery"
    /\ \E res \in StoreQueryOutcomes(req[s].query) :
        req' = [req EXCEPT ![s] =
                 IF res.kind = "thrown"
                 THEN Finish([req[s] EXCEPT !.search = res], Caught(res.error))
                 ELSE IF IsEmptyResult(res.value)
                 THEN Finish([req[s] EXCEPT !.search = res],
                             [success |-> FALSE, error |-> NoRelevantInformation])
                 ELSE IF req[s].fn = "getRagSearchResults"
                 THEN Finish([req[s] EXCEPT !.search = res],
                             [success |-> TRUE,
                              ragDetails |-> RagDetails(res.value)])
                 ELSE CallLlm([req[s] EXCEPT !.search = res],
                              Join(res.value.documents))]
    /\ UNCHANGED <<config, dbInstance, embeddingInstance, llmInstance,
                   isInitialized, dbObjs, nEmbedding, nLlm, started>>
    /\ UNCHANGED <<upVars, storeVars, cosVars, ingestVars, loadVars, uiVars>>

\* llm.generateResponse resolves
LlmResolves(s, text) ==
    /\ req[s].pc = "awaitLlm"
    /\ text \in LlmTexts
    /\ req' = [req EXCEPT ![s] =
                 IF req[s].fn = "ragQuery"
                 THEN Finish(req[s],
                             [success |-> TRUE, llmResponse |-> text,
                              ragDetails |-> RagDetails(req[s].search.value)])
                 ELSE Finish(req[s], [success |-> TRUE, response |-> text])]
    /\ UNCHANGED <<config, dbInstance, embeddingInstance, llmInstance,
                   isInitialized, dbObjs, nEmbedding, nLlm, started>>
    /\ UNCHANGED <<upVars, storeVars, cosVars, ingestVars, loadVars, uiVars>>

\* llm.generateResponse rejects
LlmRejects(s, err) ==
    /\ req[s].pc = "awaitLlm"
    /\ err \in LlmErrors
    /\ req' = [req EXCEPT ![s] = Finish(req[s], Caught(err))]
    /\ UNCHANGED <<config, dbInstance, embeddingInstance, llmInstance,
                   isInitialized, dbObjs, nEmbedding, nLlm, started>>
    /\ UNCHANGED <<upVars, storeVars, cosVars, ingestVars, loadVars, uiVars>>

\* ------------------------------------------------------------------------
\* Embedding actions: the record set
\* ------------------------------------------------------------------------
FoodTexts ==
    <<<<"banana", "yellow", "fruit">>, <<"lemon", "yellow">>, <<"chili", "spicy">>>>

\* the i-th record of foods.json; region and type are optional
FoodItem(i) ==
    [id |-> i,
     text |-> FoodTexts[((i - 1) % 3) + 1],
     region |-> IF i % 2 = 1 THEN "Tropical" ELSE "undefined",
     type |-> IF i % 3 = 1 THEN "Fruit" ELSE "undefined"]

\* what loadFoodsData resolves with
Foods(n) == [i \in 1..n |-> FoodItem(i)]
LoadError == [name |-> "Error", message |-> <<"Failed to load foods data">>]

\* enrichedText of an item
EnrichedText(item) ==
    item.text
    \o (IF item.region # "undefined"
        THEN <<"This food is popular in", item.region>> ELSE <<>>)
    \o (IF item.type # "undefined"
        THEN <<"It is a type of", item.type>> ELSE <<>>)

\* the requests embedFoodsData is called with, by their force key
EmbedRequests == {"true", "false", "undefined", "yes"}
EmbedRequestSchemaAccepts(request) == request \in {"true", "false", "undefined"}
\* force of the parsed request: optional, default false
ParsedForce(request) == request = "true"

\* ------------------------------------------------------------------------
\* Embedding actions: embedFoodsData
\* ------------------------------------------------------------------------
IdleJob ==
    [fn |-> "embedFoodsData", pc |-> "idle", force |-> FALSE, foods |-> <<>>, existingIds |-> <<>>,
     newItems |-> <<>>, i |-> 0, processed |-> 0, calls |-> <<>>,
     outcome |-> [success |-> FALSE]]

\* the catch block of embedFoodsData
EmbedFailed(err) ==
    [success |-> FALSE, message |-> <<"Failed to embed foods data">>,
     error |-> ErrorMessage(err)]

\* the catch block of getEmbeddingStatus
StatusFailed(err) ==
    [success |-> FALSE,
     error |-> IF err.name = "nonError"
               THEN <<"Failed to get embedding status">> ELSE err.message]

\* the catch block of the action the job runs
JobFailed(j, err) ==
    IF j.fn = "getEmbeddingStatus" THEN StatusFailed(err) ELSE EmbedFailed(err)

\* a JavaScript number: an integer, NaN or Infinity
Number(n) == [kind |-> "number", value |-> n]
NaN == [kind |-> "NaN"]
Infinity == [kind |-> "Infinity"]

\* Math.round((embedded / total) * 100) for counts embedded, total >= 0
Percentage(embedded, total) ==
    IF total = 0
    THEN (IF embedded = 0 THEN NaN ELSE Infinity)
    ELSE Number((200 * embedded + total) \div (2 * total))

\* the result of getEmbeddingStatus
EmbeddingStatus(foods, existingIds) ==
    [success |-> TRUE,
     total |-> Len(foods),
     embedded |-> Len(existingIds),
     remaining |-> Len(foods) - Len(existingIds),
     percentage |-> Percentage(Len(existingIds), Len(foods))]

\* a count that forgets the ids found
ZeroCount(existingIds) ==
    [success |-> TRUE, message |-> <<"All food items are already embedded">>,
     count |-> 0]
\* the result when nothing is new
AlreadyEmbedded(existingIds) ==
    [success |-> TRUE, message |-> <<"All food items are already embedded">>,
     count |-> Len(existingIds)]

\* the result after the last batch
Embedded(processed) ==
    [success |-> TRUE, message |-> <<"Successfully embedded", processed, "food items">>,
     count |-> processed]

\* a filter that keeps every record
KeepAllFoods(foods, existingIds) == foods
\* foods.filter(item => !existingIds.includes(item.id))
RECURSIVE FilterNew(_, _)
FilterNew(foods, existingIds) ==
    IF foods = <<>> THEN <<>>
    ELSE (IF \E k \in 1..Len(existingIds) : existingIds[k] = Head(foods).id
          THEN <<>> ELSE <<Head(foods)>>)
         \o FilterNew(Tail(foods), existingIds)

\* newItems
NewItems(force, foods, existingIds) ==
    IF force THEN foods ELSE FilterNew(foods, existingIds)

\* a slice without its end
WholeRest(newItems, i) == SubSeq(newItems, i + 1, Len(newItems))
\* newItems.slice(i, i + batchSize)
BatchOf(newItems, i) ==
    SubSeq(newItems, i + 1,
           IF i + batchSize < Len(newItems) THEN i + batchSize ELSE Len(newItems))

\* the arguments of db.addDocuments for a batch
BatchCall(batch) ==
    [op |-> "addDocuments",
     documents |-> [k \in 1..Len(batch) |-> EnrichedText(batch[k])],
     embeddings |-> [k \in 1..Len(batch) |-> <<>>],
     ids |-> [k \in 1..Len(batch) |-> batch[k].id],
     done |-> FALSE]       \* whether the call has settled

\* the body of the batch loop up to await db.addDocuments(...)
IssueBatch(j) ==
    LET batch == BatchOf(j.newItems, j.i)
    IN  [j EXCEPT !.pc = "awaitAdd",
                  !.processed = @ + Len(batch),
                  !.calls = Append(@, BatchCall(batch))]

\* from the filter of new items to the first batch
StartBatches(j, existingIds) ==
    LET newItems == NewItems(j.force, j.foods, existingIds)
        jj == [j EXCEPT !.existingIds = existingIds, !.newItems = newItems]
    IN  IF Len(newItems) = 0
        THEN [jj EXCEPT !.pc = "done", !.outcome = AlreadyEmbedded(existingIds)]
        ELSE IssueBatch(jj)

\* an index that adds a vector whether or not it holds one of its id
RemoteAppend(idx, vectors) == idx \o vectors
\* index.upsert of the remote service: a vector replaces that of its id
RECURSIVE RemoteUpsert(_, _)
RemoteUpsert(idx, vectors) ==
    IF vectors = <<>> THEN idx
    ELSE LET v == Head(vectors)
             at == {k \in 1..Len(idx) : idx[k].id = v.id}
         IN  RemoteUpsert(IF at = {} THEN Append(idx, v)
                          ELSE [k \in 1..Len(idx) |-> IF k \in at THEN v ELSE idx[k]],
                          Tail(vectors))

\* the store the embedding actions hold
IngestStore == ingestObjs[ingestDb]

\* how the listing of the store's ids can end inside getExistingIds: the
\* local store maps its documents; the hosted probe gives the ids of all,
\* some or none of the index's vectors, or withRetry throws, its attempts
\* used up
ProbeOutcomes ==
    IF IngestStore.kind = "simple"
    THEN {Returned([k \in 1..Len(IngestStore.docs) |-> IngestStore.docs[k].id])}
    ELSE LET all == [k \in 1..Len(remoteIndex) |-> remoteIndex[k].id]
         IN  {Returned(all), Returned(Slice(all, 1)), Returned(<<>>)}
             \cup {Threw(ExhaustedError(e)) : e \in RemoteErrors}

\* what getExistingIds settles with
GetExistingIds(probe) ==
    IF probe.kind = "returned" THEN probe
    ELSE MethodFailure([op |-> "probe"], probe.error)

\* existingIds after the try/catch around await db.getExistingIds()
ExistingIdsAfter(settled) ==
    IF settled.kind = "returned" THEN settled.value ELSE <<>>

\* what existingIds can be after the call
ExistingIdsResults ==
    {ExistingIdsAfter(GetExistingIds(probe)) : probe \in ProbeOutcomes}

\* the records a previous ingestion of the first m items left in the store
PriorCall(m) == BatchCall(Foods(m))
PriorIndex(m) ==
    RemoteUpsert(<<>>, UpsertVectors(PriorCall(m).documents, PriorCall(m).ids))
PriorFile(m) ==
    IF m = 0 THEN NoFile ELSE FileOf(AddLoop(<<>>, PriorCall(m), 1))

\* embedFoodsData up to its first await: EmbedRequestSchema.parse, then
\* initializeProviders up to await dbInstance.initialize()
EmbedStart(request) ==
    /\ job.pc \in {"idle", "done"}
    /\ jobs < MaxJobs
    /\ jobs' = jobs + 1
    /\ retrieved' = NoOutcome
    /\ IF ~EmbedRequestSchemaAccepts(request)
       THEN /\ job' = [IdleJob EXCEPT !.pc = "done",
                                      !.outcome = EmbedFailed(ZodError)]
            /\ UNCHANGED <<ingestDb, ingestEmbedding, ingestInitialized,
                           ingestObjs>>
       ELSE /\ ingestObjs' = IF NeedsCreate(ingestDb)
                             THEN Append(ingestObjs, createVectorDatabase)
                             ELSE ingestObjs
            /\ ingestDb' = IF NeedsCreate(ingestDb) THEN Len(ingestObjs') ELSE ingestDb
            /\ job' = [IdleJob EXCEPT !.pc = "awaitInitialize",
                                      !.force = ParsedForce(request)]
            /\ UNCHANGED <<ingestEmbedding, ingestInitialized>>
    /\ UNCHANGED remoteIndex
    /\ UNCHANGED <<upVars, storeVars, queryVars, cosVars, loadVars, uiVars>>

\* getEmbeddingStatus up to its first await: initializeProviders up to await
\* dbInstance.initialize()
StatusStart ==
    /\ job.pc \in {"idle", "done"}
    /\ jobs < MaxJobs
    /\ jobs' = jobs + 1
    /\ retrieved' = NoOutcome
    /\ ingestObjs' = IF NeedsCreate(ingestDb)
                     THEN Append(ingestObjs, createVectorDatabase)
                     ELSE ingestObjs
    /\ ingestDb' = IF NeedsCreate(ingestDb) THEN Len(ingestObjs') ELSE ingestDb
    /\ job' = [IdleJob EXCEPT !.pc = "awaitInitialize",
                              !.fn = "getEmbeddingStatus"]
    /\ UNCHANGED <<ingestEmbedding, ingestInitialized, remoteIndex>>
    /\ UNCHANGED <<upVars, storeVars, queryVars, cosVars, loadVars, uiVars>>

\* initializeProviders after its await, then await loadFoodsData()
IngestInitializeSettles(result) ==
    /\ job.pc = "awaitInitialize"
    /\ IF ingestInitialized
       THEN /\ result = "ok"
            /\ UNCHANGED <<ingestObjs, ingestDb, ingestInitialized>>
            /\ IF NeedsCreate(ingestEmbedding) /\ ~EmbeddingProviderSupported
               THEN /\ job' = [job EXCEPT !.pc = "done",
                                  !.outcome = JobFailed(job, UnsupportedEmbeddingError)]
                    /\ ingestEmbedding' = nil
               ELSE /\ job' = [job EXCEPT !.pc = "awaitLoad"]
                    /\ ingestEmbedding' = 1
       ELSE /\ result \in InitializeResults(IngestStore)
            /\ IF result = "failed"
               THEN /\ job' = [job EXCEPT !.pc = "done",
                                  !.outcome = JobFailed(job, InitializeError(IngestStore))]
                    /\ ingestDb' = nil
                    /\ ingestEmbedding' = nil
                    /\ ingestInitialized' = FALSE
                    /\ UNCHANGED ingestObjs
               ELSE /\ ingestObjs' =
                          [ingestObjs EXCEPT ![ingestDb] =
                              [@ EXCEPT !.ready = TRUE,
                                        !.docs = IF IngestStore.kind = "simple"
                                                    /\ dataFile.exists
                                                 THEN DocumentsOf(dataFile) ELSE @]]
                    /\ IF NeedsCreate(ingestEmbedding) /\ ~EmbeddingProviderSupported
                       THEN /\ job' = [job EXCEPT !.pc = "done",
                                          !.outcome = JobFailed(job, UnsupportedEmbeddingError)]
                            /\ ingestDb' = nil
                            /\ ingestEmbedding' = nil
                            /\ ingestInitialized' = FALSE
                       ELSE /\ job' = [job EXCEPT !.pc = "awaitLoad"]
                            /\ ingestEmbedding' = 1
                            /\ ingestInitialized' = TRUE
                            /\ UNCHANGED ingestDb
    /\ UNCHANGED <<remoteIndex, jobs, retrieved>>
    /\ UNCHANGED <<upVars, storeVars, queryVars, cosVars, loadVars, uiVars>>

\* loadFoodsData resolves with n records: the id lookup is awaited next, or,
\* when forced, the first batch is handed to the store
FoodsLoaded(n) ==
    /\ job.pc = "awaitLoad"
    /\ job' = LET j == [job EXCEPT !.foods = Foods(n)]
              IN  IF ~j.force
                  THEN [j EXCEPT !.pc = "awaitExistingIds",
                                 !.calls = Append(@, [op |-> "getExistingIds",
                                                      done |-> FALSE,
                                                      probe |-> "none",
                                                      settled |-> "none"])]
                  ELSE StartBatches(j, <<>>)
    /\ UNCHANGED <<ingestDb, ingestEmbedding, ingestInitialized, ingestObjs,
                   remoteIndex, jobs, retrieved>>
    /\ UNCHANGED <<upVars, storeVars, queryVars, cosVars, loadVars, uiVars>>

\* loadFoodsData rejects
FoodsLoadFails ==
    /\ job.pc = "awaitLoad"
    /\ job' = [job EXCEPT !.pc = "done", !.outcome = JobFailed(job, LoadError)]
    /\ UNCHANGED <<ingestDb, ingestEmbedding, ingestInitialized, ingestObjs,
                   remoteIndex, jobs, retrieved>>
    /\ UNCHANGED <<upVars, storeVars, queryVars, cosVars, loadVars, uiVars>>

\* db.getExistingIds() resolves: filter, then the first batch or the return
ExistingIdsResolve ==
    /\ job.pc = "awaitExistingIds"
    /\ \E probe \in ProbeOutcomes :
          LET settled == GetExistingIds(probe)
              j == [job EXCEPT !.calls[Len(job.calls)].done = TRUE,
                               !.calls[Len(job.calls)].probe = probe.kind,
                               !.calls[Len(job.calls)].settled = settled.kind]
          IN  job' = IF j.fn = "getEmbeddingStatus"
                     THEN [j EXCEPT
                             !.existingIds = ExistingIdsAfter(settled),
                             !.pc = "done",
                             !.outcome = EmbeddingStatus(j.foods,
                                             ExistingIdsAfter(settled))]
                     ELSE StartBatches(j, ExistingIdsAfter(settled))
    /\ UNCHANGED <<ingestDb, ingestEmbedding, ingestInitialized, ingestObjs,
                   remoteIndex, jobs, retrieved>>
    /\ UNCHANGED <<upVars, storeVars, queryVars, cosVars, loadVars, uiVars>>

\* the step of the batch loop after a completed addDocuments
AfterBatch(j) ==
    LET jj == [j EXCEPT !.i = @ + batchSize,
                        !.calls[Len(j.calls)].done = TRUE]
    IN  IF jj.i < Len(jj.newItems) THEN IssueBatch(jj)
        ELSE [jj EXCEPT !.pc = "done", !.outcome = Embedded(jj.processed)]

\* db.addDocuments(...) resolves: the batch is in the store
AddResolves ==
    /\ job.pc = "awaitAdd"
    /\ LET call == job.calls[Len(job.calls)]
       IN  IF IngestStore.kind = "simple"
           THEN /\ ingestObjs' = [ingestObjs EXCEPT ![ingestDb].docs =
                                     AddLoop(@, call, 1)]
                /\ dataFile' = FileOf(ingestObjs'[ingestDb].docs)
                /\ UNCHANGED remoteIndex
           ELSE /\ remoteIndex' =
                      RemoteUpsert(remoteIndex,
                                   UpsertVectors(call.documents, call.ids))
                /\ UNCHANGED <<ingestObjs, dataFile>>
    /\ job' = AfterBatch(job)
    /\ UNCHANGED <<ingestDb, ingestEmbedding, ingestInitialized, jobs, retrieved>>
    /\ UNCHANGED <<documents, lastCall, inserted>>
    /\ UNCHANGED <<upVars, queryVars, cosVars, loadVars, uiVars>>

\* db.addDocuments(...) of the hosted adapter rejects, its retries used up
AddRejects(e) ==
    /\ job.pc = "awaitAdd"
    /\ IngestStore.kind = "upstash"
    /\ job' = [job EXCEPT !.pc = "done",
                          !.calls[Len(job.calls)].done = TRUE,
                          !.outcome = EmbedFailed(ExhaustedError(e))]
    /\ UNCHANGED <<ingestDb, ingestEmbedding, ingestInitialized, ingestObjs,
                   remoteIndex, jobs, retrieved>>
    /\ UNCHANGED <<upVars, storeVars, queryVars, cosVars, loadVars, uiVars>>

\* the hits of the remote index for a request of topK candidates
HitOf(v) == [id |-> v.id, document |-> v.metadata.document, score |-> 9]
IndexResponses(topK) ==
    LET hits == [k \in 1..Len(remoteIndex) |-> HitOf(remoteIndex[k])]
    IN  {Slice(hits, topK)} \cup {<<hits[k]>> : k \in 1..Len(hits)}

\* a search of the store after a run of the job: db.query of a store that
\* reads what the job wrote
IngestedSearch(query) ==
    /\ job.pc = "done"
    /\ retrieved = NoOutcome
    /\ IF config.VECTOR_DB_TYPE = "simple"
       THEN /\ ~IsText(query)
            /\ retrieved' =
                  SimpleQuery(IF dataFile.exists THEN DocumentsOf(dataFile) ELSE <<>>,
                              [vector |-> <<>>], DEFAULT_RAG_RESULTS)
       ELSE \E resp \in IndexResponses(QueryOptions(query, DEFAULT_RAG_RESULTS).topK) :
               retrieved' = Returned(ShapeResult(
                   Slice(FilterHits(query, resp), DEFAULT_RAG_RESULTS)))
    /\ UNCHANGED <<ingestDb, ingestEmbedding, ingestInitialized, ingestObjs,
                   remoteIndex, job, jobs>>
    /\ UNCHANGED <<upVars, storeVars, queryVars, cosVars, loadVars, uiVars>>

\* ------------------------------------------------------------------------
\* Food actions: loadFoodsData
\* A JSON value is a record with its type; an item of foods.json is an
\* object with the four keys of a food item and its other keys, or a value
\* that is no object.
\* ------------------------------------------------------------------------
Str(x) == [type |-> "string", value |-> x]
Num(x) == [type |-> "number", value |-> x]
Absent == [type |-> "undefined"]
JsonNull == [type |-> "null"]

\* the item of foods.json that is the i-th record
RawItem(i) ==
    [kind |-> "object",
     id |-> Str(FoodItem(i).id),
     text |-> Str(FoodItem(i).text),
     region |-> IF FoodItem(i).region = "undefined" THEN Absent
                ELSE Str(FoodItem(i).region),
     type |-> IF FoodItem(i).type = "undefined" THEN Absent
              ELSE Str(FoodItem(i).type),
     others |-> {}]

\* the items foods.json is made of: records, a record with a key the schema
\* does not know, and items that are no records
RawItems ==
    {RawItem(1), RawItem(2),
     [RawItem(3) EXCEPT !.others = {"calories"}],
     [RawItem(1) EXCEPT !.id = Num(1)],
     [RawItem(2) EXCEPT !.text = Absent],
     [RawItem(3) EXCEPT !.region = JsonNull],
     [kind |-> "null"]}

\* FoodItemSchema.safeParse(item).success
FoodItemSchemaAccepts(item) ==
    /\ item.kind = "object"
    /\ item.id.type = "string"
    /\ item.text.type = "string"
    /\ item.region.type \in {"string", "undefined"}
    /\ item.type.type \in {"string", "undefined"}

\* FoodItemSchema.safeParse(item).data: the four keys, other keys stripped
ParsedData(item) ==
    [id |-> item.id.value,
     text |-> item.text.value,
     region |-> IF item.region.type = "string" THEN item.region.value
                ELSE "undefined",
     type |-> IF item.type.type = "string" THEN item.type.value
              ELSE "undefined"]

\* a validation that stops at the first invalid item
RECURSIVE UntilInvalid(_)
UntilInvalid(rawData) ==
    IF rawData = <<>> \/ ~FoodItemSchemaAccepts(Head(rawData)) THEN <<>>
    ELSE <<ParsedData(Head(rawData))>> \o UntilInvalid(Tail(rawData))
\* rawData.map(item => safeParse(item).success ? data : null).filter(Boolean)
RECURSIVE ValidatedData(_)
ValidatedData(rawData) ==
    IF rawData = <<>> THEN <<>>
    ELSE (IF FoodItemSchemaAccepts(Head(rawData))
          THEN <<ParsedData(Head(rawData))>> ELSE <<>>)
         \o ValidatedData(Tail(rawData))

\* what fetching foods.json gives: no file, or a JSON value
NoFoodsFile == [ok |-> FALSE]
FoodsArray(items) == [ok |-> TRUE, json |-> [kind |-> "array", items |-> items]]
FoodsObject == [ok |-> TRUE, json |-> [kind |-> "object"]]

\* loadFoodsData
loadFoodsData(file) ==
    IF ~file.ok THEN Threw(LoadError)
    ELSE IF file.json.kind # "array" THEN Threw(LoadError)
    ELSE Returned(ValidatedData(file.json.items))

\* loadFoodsData is called
LoadFoodsDataCall ==
    /\ loaded = NoOutcome
    /\ loaded' = loadFoodsData(foodsFile)
    /\ UNCHANGED foodsFile
    /\ UNCHANGED <<upVars, storeVars, queryVars, cosVars, ingestVars, uiVars>>

\* ------------------------------------------------------------------------
\* The page: QuestionSection.handleSubmit and Home.handleQuestionSubmit
\* An optional value is <<>> when it is undefined and <<x>> when it is x.
\* setQueryState calls take effect in the order they are made.
\* ------------------------------------------------------------------------
None == <<>>
Some(x) == <<x>>

\* useState's initial queryState
InitialQueryState ==
    [question |-> <<>>, isSearching |-> FALSE, isGenerating |-> FALSE,
     ragDetails |-> None, llmResponse |-> None, error |-> None]

\* String.prototype.trim on a text of tokens, " " a run of white space
RECURSIVE TrimStart(_)
TrimStart(text) ==
    IF text # <<>> /\ Head(text) = " " THEN TrimStart(Tail(text)) ELSE text
RECURSIVE TrimEnd(_)
TrimEnd(text) ==
    IF text # <<>> /\ text[Len(text)] = " "
    THEN TrimEnd(SubSeq(text, 1, Len(text) - 1)) ELSE text
Trim(text) == TrimEnd(TrimStart(text))

\* what the question box holds when the user submits
UIInputs ==
    {<<" ">>} \cup {<<" ">> \o q \o <<" ">> : q \in TextQueries}

\* an invocation of handleQuestionSubmit (mode "progressive"), or a client's
\* call of ragQuery (mode "combined"): its position, its question, the
\* actions it has called, the id of the request it waits for, and its
\* ragResult
IdleFlow ==
    [pc |-> "idle", mode |-> "none", question |-> <<>>, calls |-> <<>>,
     rid |-> 0, ragResult |-> None, context |-> <<>>]

\* setQueryState({question, isSearching: true, isGenerating: false})
ResetState(question) ==
    [InitialQueryState EXCEPT !.question = question, !.isSearching = TRUE]
\* an update that leaves isSearching set
KeepSearching(prev, error) == [prev EXCEPT !.error = Some(error)]
\* prev => ({...prev, isSearching: false, error: ragResult.error})
SearchFailedState(prev, error) ==
    [prev EXCEPT !.isSearching = FALSE, !.error = Some(error)]
\* prev => ({...prev, isSearching: false, isGenerating: true, ragDetails})
SearchedState(prev, ragDetails) ==
    [prev EXCEPT !.isSearching = FALSE, !.isGenerating = TRUE,
                 !.ragDetails = Some(ragDetails)]
\* prev => ({...prev, isGenerating: false, error: llmResult.error})
LlmFailedState(prev, error) ==
    [prev EXCEPT !.isGenerating = FALSE, !.error = Some(error)]
\* prev => ({...prev, isGenerating: false, llmResponse: llmResult.response})
AnsweredState(prev, response) ==
    [prev EXCEPT !.isGenerating = FALSE, !.llmResponse = Some(response)]
\* the catch block of handleQuestionSubmit
CaughtState(prev, err) ==
    [prev EXCEPT !.isSearching = FALSE, !.isGenerating = FALSE,
                 !.error = Some(ErrorMessage(err))]

\* a context that forgets the documents
NoContext(ragDetails) == << <<>> >>
\* ragResult.ragDetails.documents.join('\n')
ContextOf(ragDetails) == Join(ragDetails.documents)

\* what a call of a server action rejects with when it does not reach the
\* server
TransportErrors == {[name |-> "Error", message |-> <<"fetch failed">>],
                    [name |-> "nonError", message |-> <<>>]}

\* isLoading of QuestionSection
isLoading == queryState.isSearching \/ queryState.isGenerating
\* isPending of useTransition: an action of the transition has not settled
isPending ==
    \E f \in Slots : flow[f].mode = "progressive" /\ flow[f].pc # "done"
isSubmitDisabled(text) == Trim(text) = <<>> \/ isLoading \/ isPending

Free(f) == flow[f].pc \in {"idle", "done"}

\* handleSubmit: nothing for a blank question, else handleQuestionSubmit up
\* to await getRagSearchResults({question})
handleSubmit(text) ==
    IF Trim(text) = <<>>
    THEN UNCHANGED uiVars
    ELSE /\ submits < MaxSubmits
         /\ \E f \in Slots :
               /\ Free(f)
               /\ \A g \in Slots : g < f => ~Free(g)
               /\ flow' = [flow EXCEPT ![f] =
                              [IdleFlow EXCEPT !.pc = "callSearch",
                                               !.mode = "progressive",
                                               !.question = Trim(text),
                                               !.calls = <<"getRagSearchResults">>]]
         /\ queryState' = ResetState(Trim(text))
         /\ submits' = submits + 1

\* the Ask Question button is clicked
ClickSubmit(text) ==
    /\ ~isSubmitDisabled(text)
    /\ handleSubmit(text)
    /\ UNCHANGED <<upVars, storeVars, queryVars, cosVars, ingestVars, loadVars>>

\* Ctrl+Enter or Cmd+Enter in the question box
KeySubmit(text) ==
    /\ handleSubmit(text)
    /\ UNCHANGED <<upVars, storeVars, queryVars, cosVars, ingestVars, loadVars>>

\* the call of getRagSearchResults reaches the server
SearchArrives(f, result) ==
    /\ flow[f].pc = "callSearch"
    /\ BeginRequest(f, "getRagSearchResults", flow[f].question, <<>>, result)
    /\ flow' = [flow EXCEPT ![f].pc = "awaitSearch", ![f].rid = started + 1]
    /\ UNCHANGED <<queryState, submits>>

\* await getRagSearchResults settles: the failure, or the results shown and
\* getLlmResponse(question, context) called
SearchReturns(f) ==
    /\ flow[f].pc = "awaitSearch"
    /\ req[f].pc = "done"
    /\ LET ragResult == req[f].outcome
       IN  IF ~ragResult.success
           THEN /\ queryState' = SearchFailedState(queryState, ragResult.error)
                /\ flow' = [flow EXCEPT ![f].pc = "done",
                                        ![f].ragResult = Some(ragResult)]
           ELSE /\ queryState' = SearchedState(queryState, ragResult.ragDetails)
                /\ flow' = [flow EXCEPT
                              ![f].pc = "callLlm",
                              ![f].ragResult = Some(ragResult),
                              ![f].context = ContextOf(ragResult.ragDetails),
                              ![f].calls = Append(@, "getLlmResponse")]
    /\ UNCHANGED submits
    /\ UNCHANGED <<upVars, storeVars, queryVars, cosVars, ingestVars, loadVars>>

\* the call of getLlmResponse reaches the server
LlmArrives(f, result) ==
    /\ flow[f].pc = "callLlm"
    /\ BeginRequest(f, "getLlmResponse", flow[f].question, flow[f].context, result)
    /\ flow' = [flow EXCEPT ![f].pc = "awaitLlm", ![f].rid = started + 1]
    /\ UNCHANGED <<queryState, submits>>

\* await getLlmResponse settles: the failure or the answer
LlmReturns(f) ==
    /\ flow[f].pc = "awaitLlm"
    /\ req[f].pc = "done"
    /\ LET llmResult == req[f].outcome
       IN  queryState' = IF ~llmResult.success
                         THEN LlmFailedState(queryState, llmResult.error)
                         ELSE AnsweredState(queryState, llmResult.response)
    /\ flow' = [flow EXCEPT ![f].pc = "done"]
    /\ UNCHANGED submits
    /\ UNCHANGED <<upVars, storeVars, queryVars, cosVars, ingestVars, loadVars>>

\* a call of a server action rejects before it reaches the server
CallRejects(f, err) ==
    /\ flow[f].pc \in {"callSearch", "callLlm"}
    /\ queryState' = CaughtState(queryState, err)
    /\ flow' = [flow EXCEPT ![f].pc = "done"]
    /\ UNCHANGED submits
    /\ UNCHANGED <<upVars, storeVars, queryVars, cosVars, ingestVars, loadVars>>

\* a client calls ragQuery({question})
CombinedCall(question, result) ==
    /\ submits < MaxSubmits
    /\ \E f \in Slots :
          /\ Free(f)
          /\ \A g \in Slots : g < f => ~Free(g)
          /\ BeginRequest(f, "ragQuery", question, <<>>, result)
          /\ flow' = [flow EXCEPT ![f] =
                         [IdleFlow EXCEPT !.pc = "awaitCombined",
                                          !.mode = "combined",
                                          !.question = question,
                                          !.calls = <<"ragQuery">>,
                                          !.rid = started + 1]]
    /\ submits' = submits + 1
    /\ UNCHANGED queryState

\* ragQuery returns to its client
CombinedReturns(f) ==
    /\ flow[f].pc = "awaitCombined"
    /\ req[f].pc = "done"
    /\ flow' = [flow EXCEPT ![f].pc = "done",
                            ![f].ragResult = Some(req[f].outcome)]
    /\ UNCHANGED <<queryState, submits>>
    /\ UNCHANGED <<upVars, storeVars, queryVars, cosVars, ingestVars, loadVars>>

\* ------------------------------------------------------------------------
\* Specifications
\* ------------------------------------------------------------------------
UpInit ==
    /\ index = null
    /\ upPc = "idle"
    /\ upCall = NoCall
    /\ attempt = 0
    /\ lastError = null
    /\ delays = <<>>
    /\ attempts = <<>>
    /\ retryOutcome = NoOutcome
    /\ upResult = NoOutcome

StoreInit ==
    /\ documents = <<>>
    /\ dataFile = NoFile
    /\ lastCall = [op |-> "constructor"]
    /\ inserted = <<>>

IngestInit ==
    /\ ingestDb = nil
    /\ ingestEmbedding = nil
    /\ ingestInitialized = FALSE
    /\ ingestObjs = <<>>
    /\ remoteIndex = <<>>
    /\ job = IdleJob
    /\ jobs = 0
    /\ retrieved = NoOutcome

CosInit ==
    /\ cosA = <<>>
    /\ cosB = <<>>
    /\ cosResult = NoOutcome

QueryInit ==
    /\ dbInstance = nil
    /\ embeddingInstance = nil
    /\ llmInstance = nil
    /\ isInitialized = FALSE
    /\ dbObjs = <<>>
    /\ nEmbedding = 0
    /\ nLlm = 0
    /\ req = [s \in Slots |-> IdleRequest]
    /\ started = 0

LoadInit ==
    /\ foodsFile = NoFoodsFile
    /\ loaded = NoOutcome

UIInit ==
    /\ queryState = InitialQueryState
    /\ flow = [f \in Slots |-> IdleFlow]
    /\ submits = 0

\* the configuration the adapter and the local store are exercised under
DefaultConfig(credentials) ==
    [VECTOR_DB_TYPE |-> "upstash", UPSTASH_CREDENTIALS |-> credentials,
     LLM_PROVIDER |-> "ollama", GROQ_API_KEY |-> TRUE,
     EMBEDDING_PROVIDER |-> "ollama"]

\* ---- the query actions, requests interleaving at their await points ----
Init ==
    /\ UpInit
    /\ QueryInit
    /\ LoadInit
    /\ UIInit
    /\ config \in Configs
    /\ CosInit
    /\ IngestInit
    /\ documents = <<>>
    /\ lastCall = [op |-> "constructor"]
    /\ inserted = <<>>
    /\ dataFile \in (IF config.VECTOR_DB_TYPE = "simple"
                     THEN {NoFile, FileOf(SampleStore)} ELSE {NoFile})

Settle(s) ==
    \/ InitializeSettles(s)
    \/ ProvidersReturn(s)
    \/ \E v \in QueryVectors : EmbeddingResolves(s, v)
    \/ EmbeddingRejects(s)
    \/ QuerySettles(s)
    \/ \E text \in LlmTexts : LlmResolves(s, text)
    \/ \E err \in LlmErrors : LlmRejects(s, err)

Start(s) ==
    \E fn \in EntryPoints, question \in Questions,
       context \in Contexts \cup {<<>>}, result \in {"ok", "failed"} :
        StartRequest(s, fn, question, context, result)

Next == \E s \in Slots : Start(s) \/ Settle(s)

Spec == Init /\ [][Next]_vars

\* ---- the query actions, each request handled after the one before ----
NoneInFlight == \A s \in Slots : req[s].pc \in {"idle", "done"}

NextSeq == \E s \in Slots : (NoneInFlight /\ Start(s)) \/ Settle(s)

SpecSeq == Init /\ [][NextSeq]_vars

\* ---- the hosted adapter on its own ----
InitRetry ==
    /\ UpInit
    /\ StoreInit
    /\ QueryInit
    /\ LoadInit
    /\ UIInit
    /\ CosInit
    /\ IngestInit
    /\ config \in {DefaultConfig(c) : c \in BOOLEAN}

NextRetry ==
    \/ UpInitialize
    \/ \E call \in UpCalls : UpBegin(call)
    \/ OperationResolves
    \/ \E e \in RemoteErrors : OperationRejects(e)
    \/ DelayElapses

SpecRetry == InitRetry /\ [][NextRetry]_vars

\* ---- the local store on its own ----
InitStore ==
    /\ UpInit
    /\ StoreInit
    /\ QueryInit
    /\ LoadInit
    /\ UIInit
    /\ CosInit
    /\ IngestInit
    /\ config = DefaultConfig(TRUE)

NextLocal ==
    \/ SimpleConstruct
    \/ SimpleInitialize
    \/ \E call \in AddCalls : SimpleAddDocuments(call)
    \/ SimpleGetExistingIds
    \/ \E query \in LocalQueries, nResults \in 1..MaxK :
          SimpleQueryCall(query, nResults)

SpecStore == InitStore /\ [][NextLocal]_vars

\* ---- the embedding actions ----
IngestConfigs ==
    {[DefaultConfig(c) EXCEPT !.VECTOR_DB_TYPE = t, !.EMBEDDING_PROVIDER = e] :
        c \in BOOLEAN, t \in {"upstash", "simple"}, e \in {"ollama", "undefined"}}

InitIngest ==
    /\ UpInit
    /\ QueryInit
    /\ LoadInit
    /\ UIInit
    /\ CosInit
    /\ config \in IngestConfigs
    /\ documents = <<>>
    /\ lastCall = [op |-> "constructor"]
    /\ inserted = <<>>
    /\ ingestDb = nil
    /\ ingestEmbedding = nil
    /\ ingestInitialized = FALSE
    /\ ingestObjs = <<>>
    /\ job = IdleJob
    /\ jobs = 0
    /\ retrieved = NoOutcome
    /\ \E m \in 0..MaxFoods :
          /\ remoteIndex = IF config.VECTOR_DB_TYPE = "upstash"
                           THEN PriorIndex(m) ELSE <<>>
          /\ dataFile = IF config.VECTOR_DB_TYPE = "simple"
                        THEN PriorFile(m) ELSE NoFile

NextIngest ==
    \/ \E request \in EmbedRequests : EmbedStart(request)
    \/ \E result \in {"ok", "failed"} : IngestInitializeSettles(result)
    \/ \E n \in 0..MaxFoods : FoodsLoaded(n)
    \/ FoodsLoadFails
    \/ ExistingIdsResolve
    \/ AddResolves
    \/ \E e \in RemoteErrors : AddRejects(e)
    \/ \E query \in {[data |-> q] : q \in TextQueries} \cup {VectorQuery} :
          IngestedSearch(query)

SpecIngest == InitIngest /\ [][NextIngest]_vars

\* ---- cosineSimilarity on its own ----
InitCosine ==
    /\ UpInit
    /\ StoreInit
    /\ QueryInit
    /\ LoadInit
    /\ UIInit
    /\ IngestInit
    /\ config = DefaultConfig(TRUE)
    /\ cosA \in Vectors
    /\ cosB \in Vectors
    /\ cosResult = NoOutcome

NextCosine == CosineCall

SpecCosine == InitCosine /\ [][NextCosine]_vars

\* ---- the page over the query actions ----
UIConfigs ==
    {DefaultConfig(TRUE), DefaultConfig(FALSE),
     [DefaultConfig(TRUE) EXCEPT !.VECTOR_DB_TYPE = "simple"]}

InitUI ==
    /\ UpInit
    /\ QueryInit
    /\ LoadInit
    /\ UIInit
    /\ CosInit
    /\ IngestInit
    /\ config \in UIConfigs
    /\ documents = <<>>
    /\ lastCall = [op |-> "constructor"]
    /\ inserted = <<>>
    /\ dataFile \in (IF config.VECTOR_DB_TYPE = "simple"
                     THEN {NoFile, FileOf(SampleStore)} ELSE {NoFile})

\* the steps that are not the user's: the network and the server
Advance(f) ==
    \/ \E result \in {"ok", "failed"} : SearchArrives(f, result)
    \/ \E result \in {"ok", "failed"} : LlmArrives(f, result)
    \/ Settle(f)
    \/ SearchReturns(f)
    \/ LlmReturns(f)
    \/ CombinedReturns(f)

NextUI ==
    \/ \E text \in UIInputs : ClickSubmit(text)
    \/ \E text \in UIInputs : KeySubmit(text)
    \/ \E question \in TextQueries, result \in {"ok", "failed"} :
          CombinedCall(question, result)
    \/ \E f \in Slots, err \in TransportErrors : CallRejects(f, err)
    \/ \E f \in Slots : Advance(f)

SpecUI == InitUI /\ [][NextUI]_vars

\* ---- the page alone, every call and every answer going on ----
SettlePage(f) ==
    \/ InitializeSettles(f)
    \/ ProvidersReturn(f)
    \/ QuerySettles(f)
    \/ \E text \in LlmTexts : LlmResolves(f, text)
    \/ \E err \in LlmErrors : LlmRejects(f, err)

AdvancePage(f) ==
    \/ \E result \in {"ok", "failed"} : SearchArrives(f, result)
    \/ \E result \in {"ok", "failed"} : LlmArrives(f, result)
    \/ SettlePage(f)
    \/ SearchReturns(f)
    \/ LlmReturns(f)

NextPage ==
    \/ \E text \in UIInputs : ClickSubmit(text)
    \/ \E text \in UIInputs : KeySubmit(text)
    \/ \E f \in Slots, err \in TransportErrors : CallRejects(f, err)
    \/ \E f \in Slots : AdvancePage(f)

\* every call that was made arrives, every request on the server settles
\* and every answer comes back: each remote call returns or fails
SpecPage ==
    InitUI /\ [][NextPage]_vars /\ \A f \in Slots : WF_vars(AdvancePage(f))

\* ---- the page asked two different questions ----
SweetQuestion == <<"what", "is", "sweet">>
AskInputs == UIInputs \cup {<<" ">> \o SweetQuestion}

NextAsk ==
    \/ \E text \in AskInputs : ClickSubmit(text)
    \/ \E text \in AskInputs : KeySubmit(text)
    \/ \E f \in Slots, err \in TransportErrors : CallRejects(f, err)
    \/ \E f \in Slots : AdvancePage(f)

SpecAsk == InitUI /\ [][NextAsk]_vars

\* ---- questions and ingestion on the local store, one call at a time ----
LocalConfig == [DefaultConfig(TRUE) EXCEPT !.VECTOR_DB_TYPE = "simple"]

InitShared ==
    /\ UpInit
    /\ StoreInit
    /\ QueryInit
    /\ LoadInit
    /\ UIInit
    /\ CosInit
    /\ IngestInit
    /\ config = LocalConfig

SettleSearch(s) ==
    \/ InitializeSettles(s)
    \/ ProvidersReturn(s)
    \/ \E v \in QueryVectors : EmbeddingResolves(s, v)
    \/ EmbeddingRejects(s)
    \/ QuerySettles(s)

NextShared ==
    \/ \E s \in Slots, fn \in {"ragQuery", "getRagSearchResults"},
          question \in TextQueries :
          /\ NoneInFlight
          /\ job.pc \in {"idle", "done"}
          /\ StartRequest(s, fn, question, <<>>, "ok")
    \/ \E s \in Slots : SettleSearch(s)
    \/ \E request \in {"true", "false"} : NoneInFlight /\ EmbedStart(request)
    \/ IngestInitializeSettles("ok")
    \/ \E n \in 1..MaxBatch : FoodsLoaded(n)
    \/ ExistingIdsResolve
    \/ AddResolves

SpecShared == InitShared /\ [][NextShared]_vars

\* ---- the status of the ingestion, asked of stores of any contents ----
NextStatus ==
    \/ StatusStart
    \/ \E result \in {"ok", "failed"} : IngestInitializeSettles(result)
    \/ \E n \in 0..MaxFoods : FoodsLoaded(n)
    \/ FoodsLoadFails
    \/ ExistingIdsResolve

SpecStatus == InitIngest /\ [][NextStatus]_vars

\* ---- loadFoodsData on its own ----
RECURSIVE SeqsUpTo(_, _)
SeqsUpTo(S, n) ==
    IF n = 0 THEN {<<>>}
    ELSE SeqsUpTo(S, n - 1)
         \cup {Append(q, x) : q \in {r \in SeqsUpTo(S, n - 1) : Len(r) = n - 1},
                              x \in S}

FoodsFiles ==
    {NoFoodsFile, FoodsObject} \cup {FoodsArray(items) : items \in SeqsUpTo(RawItems, MaxRaw)}

InitLoad ==
    /\ UpInit
    /\ StoreInit
    /\ QueryInit
    /\ UIInit
    /\ CosInit
    /\ IngestInit
    /\ config = DefaultConfig(TRUE)
    /\ foodsFile \in FoodsFiles
    /\ loaded = NoOutcome

NextLoad == LoadFoodsDataCall

SpecLoad == InitLoad /\ [][NextLoad]_vars

\* ------------------------------------------------------------------------
\* Properties of the hosted adapter's retry wrapper (under SpecRetry)
\* ------------------------------------------------------------------------
FailedAttempts == {n \in 1..Len(attempts) : ~attempts[n].ok}

\* C2: an operation that fails on its first k attempts, k < 3, and succeeds
\* on attempt k+1 has its result returned by withRetry and by the method, no
\* error surfaced, after exactly k delays, which are 1s, then 2s; a success
\* on the first attempt has no delay and no further attempt.
C2_RetrySuccess ==
    (attempts # <<>> /\ attempts[Len(attempts)].ok) =>
        LET k == Len(attempts) - 1
        IN  /\ k < 3
            /\ FailedAttempts = 1..k
            /\ retryOutcome = Returned(attempts[k + 1].value)
            /\ upResult.kind = "returned"
            /\ delays = SubSeq(<<1000, 2000>>, 1, k)
            /\ upPc = "idle"

\* C2 witness: fail, fail, succeed has happened
C2_Witness ==
    /\ Len(attempts) = 3
    /\ ~attempts[1].ok /\ ~attempts[2].ok /\ attempts[3].ok
    /\ retryOutcome.kind = "returned"

\* C3: upsert, search and id probe are each attempted at most 3 times per
\* call, and when all 3 attempts fail withRetry throws to its caller an
\* error that reports the error of the third attempt.
C3_RetryExhaustion ==
    /\ Len(attempts) <= 3
    /\ retryOutcome.kind = "thrown" =>
          /\ Len(attempts) = 3
          /\ FailedAttempts = 1..3
          /\ retryOutcome.error.message[4] = attempts[3].error
    /\ (Len(attempts) = 3 /\ ~attempts[3].ok) =>
          /\ upPc = "idle"
          /\ retryOutcome.kind = "thrown"
          /\ upCall.op \in {"upsert", "query"} => upResult = retryOutcome

\* C3 witness: three failures, the last with another error than the first
C3_Witness ==
    /\ retryOutcome.kind = "thrown"
    /\ Len(attempts) = 3
    /\ attempts[1].error # attempts[3].error
    /\ upCall.op = "query"

\* C4 as stated: the wait that follows the n-th failed attempt is
\* 1s * 2^(n-1), the delays being 1s, 2s, 4s.
C4_Original ==
    \A n \in FailedAttempts :
        /\ Len(delays) >= n
        /\ delays[n] = 1000 * Pow2(n - 1)

\* C4 amended: the wait that follows the n-th failed attempt is 1s * 2^(n-1)
\* for n = 1 and n = 2; no wait follows the third failed attempt, so the
\* delays of one call are 1s, 2s and a 4s delay never happens.
C4_BackoffSchedule ==
    /\ delays \in {<<>>, <<1000>>, <<1000, 2000>>}
    /\ \A n \in FailedAttempts :
          IF n < 3 THEN Len(delays) >= n /\ delays[n] = 1000 * Pow2(n - 1)
          ELSE Len(delays) = 2

\* C4 witness: a call whose three attempts failed, with its two waits
C4_Witness ==
    /\ FailedAttempts = 1..3
    /\ delays = <<1000, 2000>>
    /\ upPc = "idle"

\* ------------------------------------------------------------------------
\* Properties of the local store (under SpecStore)
\* ------------------------------------------------------------------------
RecordsOf(docs, id) == {i \in 1..Len(docs) : docs[i].id = id}

\* C10: addDocuments of one record whose id is present leaves the record
\* count unchanged and the store then holds the call's text and embedding
\* for that id; addDocuments of one record whose id is absent raises the
\* count by exactly one.
C10_Upsert ==
    [][(lastCall'.op = "addDocuments" /\ Len(lastCall'.ids) = 1) =>
          LET id == lastCall'.ids[1]
          IN  /\ Len(documents') =
                    IF id \in IdsOf(documents) THEN Len(documents)
                    ELSE Len(documents) + 1
              /\ \A i \in RecordsOf(documents', id) :
                    /\ documents'[i].text = lastCall'.documents[1]
                    /\ documents'[i].embedding = lastCall'.embeddings[1]
              /\ RecordsOf(documents', id) # {}
      ]_vars

\* C10 witness: a record was added under an id the store already held, next
\* to another record
C10_Witness ==
    /\ lastCall.op = "addDocuments"
    /\ Len(lastCall.ids) = 1
    /\ lastCall.present = {lastCall.ids[1]}
    /\ Len(documents) >= 2

\* the places of a sequence and the set of its elements
NoRepeat(seq) == \A i, j \in 1..Len(seq) : seq[i] = seq[j] => i = j
Range(seq) == {seq[i] : i \in 1..Len(seq)}
PlaceOf(seq, x) == CHOOSE i \in 1..Len(seq) : seq[i] = x
StoredIds == [i \in 1..Len(documents) |-> documents[i].id]
\* the stored record of an id
RecordOf(id) == documents[PlaceOf(StoredIds, id)]
\* a vector without direction: no component other than zero
IsZero(v) == \A i \in 1..Len(v) : v[i] = 0
\* the last call was a vector query of a store that holds records
VectorQueried ==
    /\ lastCall.op = "query"
    /\ "vector" \in DOMAIN lastCall.query
    /\ documents # <<>>
SameLengths ==
    \A i \in 1..Len(documents) :
        Len(documents[i].embedding) = Len(lastCall.query.vector)

\* C11: in a local store that started empty, after any sequence of
\* addDocuments calls (ids repeated across calls or within one call), no two
\* records share an id, the ids stored are exactly the ids ever added, and
\* getExistingIds returns exactly those ids, each once.
C11_IdUniqueness ==
    /\ NoRepeat(StoredIds)
    /\ Range(StoredIds) = Range(inserted)
    /\ lastCall.op = "getExistingIds" =>
          /\ NoRepeat(lastCall.result)
          /\ Range(lastCall.result) = Range(inserted)

\* C11 witness: A, B, C were added, B was added again, and getExistingIds
\* has returned the three ids
C11_Witness ==
    /\ lastCall.op = "getExistingIds"
    /\ inserted = <<"A", "B", "C">>
    /\ lastCall.result = <<"A", "C", "B">>

\* C12: a vector query of the dimension of the stored embeddings, on a
\* store of n >= 1 records with requested k, returns exactly min(k, n)
\* results; they are stored records, each once, no record left out is more
\* similar to the query than a record returned, and the distances are
\* non-decreasing (similarities non-increasing) along the list.
C12_TopK ==
    (VectorQueried /\ SameLengths) =>
        LET k == lastCall.nResults
            n == Len(documents)
            q == lastCall.query.vector
            r == lastCall.result
        IN  /\ r.kind = "returned"
            /\ Len(r.value.ids) = (IF k < n THEN k ELSE n)
            /\ Len(r.value.documents) = Len(r.value.ids)
            /\ Len(r.value.distances) = Len(r.value.ids)
            /\ NoRepeat(r.value.ids)
            /\ Range(r.value.ids) \subseteq Range(StoredIds)
            /\ \A i \in 1..Len(r.value.ids) :
                  /\ r.value.documents[i] = RecordOf(r.value.ids[i]).text
                  /\ r.value.distances[i] = ScoreOne
                        - cosineSimilarity(q, RecordOf(r.value.ids[i]).embedding)
                  /\ \A j \in 1..Len(documents) :
                        documents[j].id \notin Range(r.value.ids) =>
                            ScoreOne - cosineSimilarity(q, documents[j].embedding)
                                >= r.value.distances[i]
            /\ \A i, j \in 1..Len(r.value.ids) :
                  i < j => r.value.distances[i] <= r.value.distances[j]

\* C12 witness: two of three records returned, the nearer one first, the
\* record stored first left out
C12_Witness ==
    /\ VectorQueried /\ SameLengths
    /\ Len(documents) = 3
    /\ lastCall.nResults = 2
    /\ lastCall.result.kind = "returned"
    /\ lastCall.result.value.distances[1] < lastCall.result.value.distances[2]
    /\ documents[1].id \notin Range(lastCall.result.value.ids)

\* C13: among the records a query returns with equal similarity, a record
\* comes before another only if it was inserted before it, the place of a
\* record being that of its first insertion, also after re-upserts of ids
\* already present.
C13_TieOrder ==
    (VectorQueried /\ lastCall.result.kind = "returned") =>
        LET r == lastCall.result.value
        IN  \A i, j \in 1..Len(r.ids) :
                (i < j /\ r.distances[i] = r.distances[j]) =>
                    PlaceOf(inserted, r.ids[i]) < PlaceOf(inserted, r.ids[j])

\* C14: a vector query of a store that holds records fails with the
\* length-mismatch error, as a whole, exactly when some stored embedding has
\* another length than the query vector; and where the query vector or the
\* stored embedding has zero magnitude the similarity is 0, the distance 1.
C14_CosineErrorAndZero ==
    VectorQueried =>
        LET q == lastCall.query.vector
            r == lastCall.result
        IN  /\ r = Threw(LengthError) <=> ~SameLengths
            /\ r.kind = "returned" <=> SameLengths
            /\ r.kind = "returned" =>
                  \A i \in 1..Len(r.value.ids) :
                      (IsZero(q) \/ IsZero(RecordOf(r.value.ids[i]).embedding)) =>
                          r.value.distances[i] = ScoreOne

\* C14 witness: the query failed on a store in which one embedding has the
\* length of the query vector and another has not
C14_Witness ==
    /\ VectorQueried
    /\ lastCall.result = Threw(LengthError)
    /\ \E i, j \in 1..Len(documents) :
          /\ Len(documents[i].embedding) = Len(lastCall.query.vector)
          /\ Len(documents[j].embedding) # Len(lastCall.query.vector)

\* C16: after every completed addDocuments the file holds exactly the
\* in-memory record list, as {documents: [{id, text, embedding}, ...]}; the
\* file is written by addDocuments only, and a store that has run
\* initialize() on an existing file holds the records of the file in the
\* order of the file.
C16_PersistenceRoundTrip ==
    /\ [](lastCall.op = "addDocuments" =>
            /\ dataFile.exists
            /\ dataFile.json[1] = "documents"
            /\ Len(dataFile.json[2]) = Len(documents)
            /\ \A i \in 1..Len(documents) :
                  dataFile.json[2][i] =
                      <<documents[i].id, documents[i].text, documents[i].embedding>>)
    /\ []((lastCall.op = "initialize" /\ dataFile.exists) =>
            /\ Len(documents) = Len(dataFile.json[2])
            /\ \A i \in 1..Len(documents) :
                  /\ documents[i].id = dataFile.json[2][i][1]
                  /\ documents[i].text = dataFile.json[2][i][2]
                  /\ documents[i].embedding = dataFile.json[2][i][3])
    /\ [][dataFile' # dataFile => lastCall'.op = "addDocuments"]_vars

\* C16 witness: a store has loaded three records from the file, in another
\* order than that of their ids
C16_Witness ==
    /\ lastCall.op = "initialize"
    /\ dataFile.exists
    /\ StoredIds = <<"C", "A", "B">>
    /\ documents[1].text # documents[2].text

\* ------------------------------------------------------------------------
\* Properties of cosineSimilarity (under SpecCosine)
\* ------------------------------------------------------------------------
\* C15: for vectors a and b of equal length, cosineSimilarity(a, b) returns
\* what cosineSimilarity(b, a) returns.
C15_Symmetric ==
    (cosResult # NoOutcome /\ Len(cosA) = Len(cosB)) =>
        cosResult = Returned(cosineSimilarity(cosB, cosA))

\* C15 witness: a call on two vectors of different direction and magnitude
C15_Witness ==
    /\ cosResult = Returned(6)
    /\ cosA = <<1, 0>>
    /\ cosB = <<3, 4>>

\* ------------------------------------------------------------------------
\* Properties of the embedding actions (under SpecIngest)
\* ------------------------------------------------------------------------
\* the addDocuments calls of the job, and the ids they handed to the store
IsAdd(call) == call.op = "addDocuments"
Adds == SelectSeq(job.calls, IsAdd)
RECURSIVE HandedIds(_)
HandedIds(adds) ==
    IF adds = <<>> THEN <<>> ELSE Head(adds).ids \o HandedIds(Tail(adds))
FoodIds == [k \in 1..Len(job.foods) |-> job.foods[k].id]
\* the job asked the store for its ids and got them
ListedIds ==
    \E k \in 1..Len(job.calls) :
        job.calls[k].op = "getExistingIds" /\ job.calls[k].done
\* the ids of the records that are new: all when forced, else those that
\* are not among the existing ids
IsNewId(id) == job.force \/ id \notin Range(job.existingIds)
ExpectedIds == SelectSeq(FoodIds, IsNewId)
RunSucceeded == job.pc = "done" /\ job.outcome.success

\* C17: a run with force = false that finds every record id among the
\* existing ids hands nothing to the store, calls no embedding, and returns
\* {success: true, count: the number of existing ids}.
C17_NothingNew ==
    (~job.force /\ ListedIds /\ Range(FoodIds) \subseteq Range(job.existingIds)) =>
        /\ job.pc = "done"
        /\ Adds = <<>>
        /\ \A k \in 1..Len(job.calls) : job.calls[k].op # "getEmbedding"
        /\ job.outcome.success
        /\ job.outcome.count = Len(job.existingIds)

\* C17 witness: five or more records, all found in the store
C17_Witness ==
    /\ ~job.force /\ ListedIds
    /\ Len(job.foods) >= 5
    /\ Range(FoodIds) \subseteq Range(job.existingIds)
    /\ job.pc = "done"

\* C18 as stated: in a successful run the ids handed to the store are all
\* record ids when forced, and those not among the existing ids otherwise;
\* the returned count is the size of that set.
C18_Original ==
    RunSucceeded =>
        /\ HandedIds(Adds) = ExpectedIds
        /\ job.outcome.count = Len(ExpectedIds)

\* C18 amended: in a successful run the ids handed to the store are all
\* record ids when forced, and those not among the existing ids otherwise;
\* the returned count is the size of that set when it is not empty, and the
\* number of existing ids found when it is empty.
C18_NewItemSet ==
    RunSucceeded =>
        /\ HandedIds(Adds) = ExpectedIds
        /\ job.outcome.count =
              (IF ExpectedIds # <<>> THEN Len(ExpectedIds)
               ELSE Len(job.existingIds))

\* C18 witness: a run without force that found some of the ids and handed
\* the others to the store
C18_Witness ==
    /\ RunSucceeded
    /\ ~job.force
    /\ job.existingIds # <<>>
    /\ Len(ExpectedIds) >= 2
    /\ Len(ExpectedIds) < Len(job.foods)

\* C19: the new items go to the store in consecutive batches of at most 5,
\* in input order, every batch but the last of exactly 5, so that a
\* successful run of n new items makes ceil(n/5) addDocuments calls; a call
\* is issued only when the call before it has completed, so at most one is
\* outstanding.
C19_Batching ==
    LET newIds == [k \in 1..Len(job.newItems) |-> job.newItems[k].id]
        handed == HandedIds(Adds)
    IN  /\ \A k \in 1..Len(Adds) :
              /\ Len(Adds[k].ids) \in 1..5
              /\ Len(Adds[k].documents) = Len(Adds[k].ids)
              /\ Len(Adds[k].embeddings) = Len(Adds[k].ids)
              /\ k < Len(Adds) => (Adds[k].done /\ Len(Adds[k].ids) = 5)
        /\ Cardinality({k \in 1..Len(Adds) : ~Adds[k].done}) <= 1
        /\ Len(handed) <= Len(newIds)
        /\ handed = SubSeq(newIds, 1, Len(handed))
        /\ job.pc = "awaitAdd" <=> (Adds # <<>> /\ ~Adds[Len(Adds)].done)
        /\ (RunSucceeded /\ newIds # <<>>) =>
              /\ handed = newIds
              /\ Len(Adds) = (Len(newIds) + 4) \div 5

\* C19 witness: six new items went to the store as a batch of five, then,
\* that call completed, a batch of one
C19_Witness ==
    /\ RunSucceeded
    /\ Len(Adds) = 2
    /\ Len(Adds[1].ids) = 5
    /\ Len(Adds[2].ids) = 1

\* C20: every document a search of the ingested store returns is the
\* original, unenriched text of the record of its id.
C20_DisplayTextIsOriginal ==
    retrieved.kind = "returned" =>
        \A k \in 1..Len(retrieved.value.ids) :
            retrieved.value.documents[k] = FoodItem(retrieved.value.ids[k]).text

\* the ids the store holds after the job: the remote index or the data file
StoreHolds ==
    IF config.VECTOR_DB_TYPE = "upstash"
    THEN {remoteIndex[k].id : k \in 1..Len(remoteIndex)}
    ELSE IF dataFile.exists THEN IdsOf(DocumentsOf(dataFile)) ELSE {}

\* the scenario of the one banana record: a forced, successful run over the
\* record set of one, the store then holding that record only, and a search
\* of it that returned
BananaScenario ==
    /\ job.pc = "done"
    /\ job.force
    /\ job.foods = Foods(1)
    /\ RunSucceeded
    /\ StoreHolds = {1}
    /\ retrieved.kind = "returned"

\* C21: with the record set of the one banana record (region Tropical, type
\* Fruit), after a forced ingestion the store contains id 1, the question
\* 'What fruits are yellow?' retrieves 1 document, and the prompt built from
\* the retrieved documents has the lines 'Context:', the record's original
\* text, an empty line, 'Question: What fruits are yellow?', 'Answer:'.
C21_EndToEnd ==
    BananaScenario =>
        /\ Len(retrieved.value.documents) = 1
        /\ retrieved.value.ids = <<1>>
        /\ \A q \in TextQueries :
              SubSeq(Prompt(q, Join(retrieved.value.documents)), 3, 7)
                = << <<"Context:">>, FoodItem(1).text, <<>>,
                     <<"Question:">> \o q, <<"Answer:">> >>

\* C22: a failure while storing some items does not stop the job: a run that
\* reached its batches ends with every batch of the new items handed to the
\* store and returns success, with a count that is at most the number of new
\* items.
C22_PartialFailure ==
    (job.pc = "done" /\ Adds # <<>>) =>
        /\ HandedIds(Adds) = ExpectedIds
        /\ job.outcome.success
        /\ job.outcome.count <= Len(ExpectedIds)

\* ------------------------------------------------------------------------
\* Properties of the query actions (under Spec and SpecSeq)
\* ------------------------------------------------------------------------
Finished(s) == req[s].pc = "done"
Succeeded(s) == Finished(s) /\ req[s].outcome.success
SearchedEmpty(s) ==
    /\ req[s].search.kind = "returned"
    /\ Len(req[s].search.value.documents) = 0

\* C1: in ragQuery and getRagSearchResults, a store query that returns an
\* empty documents list ends the request with {success: false, error: 'No
\* relevant information found in the database'} and without a call of the
\* language model; every success outcome with ragDetails has resultCount >= 1
\* and a non-empty documents list.
C1_EmptySearchIsError ==
    \A s \in Slots :
        /\ SearchedEmpty(s) =>
              /\ Finished(s)
              /\ req[s].outcome =
                    [success |-> FALSE, error |-> NoRelevantInformation]
              /\ "generateResponse" \notin req[s].did
        /\ (Succeeded(s) /\ req[s].fn \in {"ragQuery", "getRagSearchResults"}) =>
              /\ req[s].outcome.ragDetails.resultCount >= 1
              /\ Len(req[s].outcome.ragDetails.documents) >= 1

\* C1 witness: a request of each kind, both with an empty search result
C1_Witness ==
    /\ SearchedEmpty(1) /\ req[1].fn = "ragQuery"
    /\ SearchedEmpty(2) /\ req[2].fn = "getRagSearchResults"

\* C5: every finished request has returned a tagged result and nothing was
\* thrown to the caller: a failure of validation, of provider initialisation,
\* of the vector search or of the language model gives {success: false,
\* error: message}, the message being that of the error caught, or the
\* generic fallback when what was caught is no Error.
KnownMessages ==
    {ZodError.message, NullStoreError.message, EmbeddingError.message,
     UnsupportedEmbeddingError.message, GroqKeyError.message,
     NotInitializedError.message, TextQueryError.message, LengthError.message,
     NoRelevantInformation, <<"Unknown error occurred">>,
     <<"Upstash Vector URL and TOKEN are required">>,
     <<"Simple Vector DB initialization failed">>, <<"Ollama LLM failed">>}
    \cup {ExhaustedError(e).message : e \in RemoteErrors}

C5_ErrorsAreTagged ==
    \A s \in Slots :
        Finished(s) =>
            /\ "success" \in DOMAIN req[s].outcome
            /\ ~req[s].outcome.success =>
                  /\ DOMAIN req[s].outcome = {"success", "error"}
                  /\ req[s].outcome.error \in KnownMessages
            /\ req[s].search.kind = "thrown" =>
                  req[s].outcome =
                      [success |-> FALSE, error |-> req[s].search.error.message]
            /\ (Validates(req[s].fn) /\ req[s].question = EmptyQuestion) =>
                  req[s].outcome =
                      [success |-> FALSE, error |-> <<"Question cannot be empty">>]
            /\ (~EmbeddingProviderSupported \/ ~LlmProviderConstructs) =>
                  ~req[s].outcome.success

\* C5 witness: one request ended by a failed vector search, another by a
\* rejection of the language model with something that is no Error
C5_Witness ==
    /\ Finished(1) /\ req[1].search.kind = "thrown"
    /\ Finished(2) /\ "generateResponse" \in req[2].did
    /\ req[2].outcome = [success |-> FALSE, error |-> <<"Unknown error occurred">>]

\* C6 as stated: at ragQuery, getRagSearchResults and getLlmResponse an empty
\* question is rejected with an error outcome before any provider is
\* constructed or initialised and before any store, embedding or
\* language-model call.
C6_ValidationFirst ==
    \A s \in Slots :
        (req[s].id # 0 /\ req[s].question = EmptyQuestion) =>
            /\ Finished(s)
            /\ ~req[s].outcome.success
            /\ req[s].did = {}

\* the providers are all built and the store initialised
Built ==
    /\ isInitialized
    /\ dbInstance # nil /\ embeddingInstance # nil /\ llmInstance # nil
\* the state the catch block of initializeProviders leaves
AllReset ==
    /\ ~isInitialized
    /\ dbInstance = nil /\ embeddingInstance = nil /\ llmInstance = nil

ConstructionSteps ==
    {"createVectorDatabase", "initialize", "createEmbeddingProvider",
     "createLlmProvider"}

\* C7: with requests handled one after another, once initializeProviders
\* has succeeded no later step calls a provider factory or initialize()
\* again, the singletons stay the same objects, and every request that
\* gets its providers from then on gets these three and did no construction.
C7_SingletonsReused ==
    [][Built =>
          /\ dbInstance' = dbInstance
          /\ embeddingInstance' = embeddingInstance
          /\ llmInstance' = llmInstance
          /\ isInitialized'
          /\ dbObjs' = dbObjs
          /\ nEmbedding' = nEmbedding
          /\ nLlm' = nLlm
          /\ \A s \in Slots :
                (req'[s].pc = "awaitProviders" /\ req'[s] # req[s]) =>
                    /\ req'[s].db = dbInstance
                    /\ req'[s].embedding = embeddingInstance
                    /\ req'[s].llm = llmInstance
                    /\ req'[s].did \cap ConstructionSteps = {}
      ]_vars

\* C7 witness: the second request got the providers the first one built
C7_Witness ==
    \E s \in Slots :
        /\ req[s].id = 2
        /\ req[s].pc = "awaitProviders"
        /\ req[s].did = {}
        /\ Built
        /\ req[s].db = dbInstance /\ dbObjs[dbInstance].initBy = {1}

\* a step in which the initializeProviders of the request in slot s throws
InitializeProvidersThrows(s) ==
    /\ req[s].pc \in {"idle", "done", "awaitInitialize"}
    /\ req'[s] # req[s]
    /\ req'[s].pc = "done"
    /\ ~(Validates(req'[s].fn) /\ req'[s].question = EmptyQuestion)

C9_NoInitialisationRace ==
    /\ \A d \in 1..Len(dbObjs) : Cardinality(dbObjs[d].initBy) <= 1
    /\ \A s \in Slots :
          /\ req[s].pc = "awaitQuery" => req[s].query.ready
          /\ Finished(s) => req[s].outcome # Caught(NullStoreError)

\* ------------------------------------------------------------------------
\* Properties of the search results and their shaping (under Spec)
\* ------------------------------------------------------------------------
\* the request the hosted adapter sends for the query of request s
SentOptions(s) == QueryOptions(req[s].query.arg, DEFAULT_RAG_RESULTS)

\* C26: getRagSearchResults hands the raw question text to the store and
\* never calls getEmbedding; the request the hosted adapter sends carries a
\* text as data and a vector as vector, never both.
C26_TextQueryNoEmbedding ==
    \A s \in Slots :
        /\ req[s].fn = "getRagSearchResults" =>
              /\ "getEmbedding" \notin req[s].did
              /\ req[s].pc = "awaitQuery" =>
                    req[s].query.arg = [data |-> req[s].question]
        /\ req[s].pc = "awaitQuery" =>
              /\ ("data" \in DOMAIN SentOptions(s)) # ("vector" \in DOMAIN SentOptions(s))
              /\ IsText(req[s].query.arg) =>
                    SentOptions(s).data = req[s].query.arg.data
              /\ ~IsText(req[s].query.arg) =>
                    SentOptions(s).vector = req[s].query.arg.vector

\* C26 witness: a getRagSearchResults request waits for the hosted store's
\* answer to its text query while a ragQuery request waits with its vector
C26_Witness ==
    \E s, t \in Slots :
        /\ req[s].fn = "getRagSearchResults" /\ req[s].pc = "awaitQuery"
        /\ req[s].query.kind = "upstash" /\ req[s].query.ready
        /\ req[t].fn = "ragQuery" /\ req[t].pc = "awaitQuery"
        /\ req[t].query.kind = "upstash"

\* the records the searched store can hold, as id, document and the
\* distance of the query vector v
HostedRows == {[id |-> h.id, document |-> h.document,
                distance |-> ScoreOne - h.score] : h \in Range(RankedHits)}
LocalRows(v) ==
    {[id |-> d.id, document |-> d.text,
      distance |-> ScoreOne - cosineSimilarity(v, d.embedding)] :
        d \in Range(SampleStore)}
RowAt(result, i) ==
    [id |-> result.ids[i], document |-> result.documents[i],
     distance |-> result.distances[i]]
Searched(s) == req[s].search.kind = "returned"

\* C27: every result of the local and of the hosted query has documents,
\* ids and distances (and metadatas when present) of the same length, and
\* position i of each belongs to the same record; a hosted distance is
\* 1 minus the remote score.
C27_ParallelArrays ==
    \A s \in Slots :
        Searched(s) =>
            LET result == req[s].search.value
                n == Len(result.documents)
            IN  /\ Len(result.ids) = n
                /\ Len(result.distances) = n
                /\ "metadatas" \in DOMAIN result =>
                      /\ Len(result.metadatas) = n
                      /\ \A i \in 1..n :
                            /\ result.metadatas[i].document = result.documents[i]
                            /\ RowAt(result, i) \in HostedRows
                /\ "metadatas" \notin DOMAIN result =>
                      \E v \in QueryVectors :
                          \A i \in 1..n : RowAt(result, i) \in LocalRows(v)

\* C27 witness: a hosted search returned two or more hits at different
\* distances, the other request's search one hit
C27_Witness ==
    \E s, t \in Slots :
        /\ Searched(s) /\ "metadatas" \in DOMAIN req[s].search.value
        /\ Len(req[s].search.value.ids) >= 2
        /\ req[s].search.value.distances[1] # req[s].search.value.distances[2]
        /\ Searched(t) /\ Len(req[t].search.value.ids) = 1

\* the ragDetails of a successful ragQuery or getRagSearchResults
HasDetails(s) ==
    /\ Succeeded(s)
    /\ req[s].fn \in {"ragQuery", "getRagSearchResults"}

\* C28: in every success outcome of ragQuery and getRagSearchResults,
\* similarities[i] = max(0, 1 - distances[i]) >= 0, similarities has the
\* length of documents and ids, and resultCount = documents.length.
C28_SimilarityShaping ==
    \A s \in Slots :
        HasDetails(s) =>
            LET details == req[s].outcome.ragDetails
                result == req[s].search.value
                n == Len(details.documents)
            IN  /\ details.documents = result.documents
                /\ details.ids = result.ids
                /\ Len(details.ids) = n
                /\ Len(details.similarities) = n
                /\ details.resultCount = n
                /\ \A i \in 1..n :
                      /\ details.similarities[i] >= 0
                      /\ details.similarities[i] =
                            (IF ScoreOne - result.distances[i] > 0
                             THEN ScoreOne - result.distances[i] ELSE 0)

\* C28 witness: a success whose search had a distance above 1, and one with
\* a distance below 1
C28_Witness ==
    \E s, t \in Slots :
        /\ HasDetails(s)
        /\ \E i \in 1..Len(req[s].search.value.distances) :
              req[s].search.value.distances[i] > ScoreOne
        /\ HasDetails(t)
        /\ \E i \in 1..Len(req[t].search.value.distances) :
              req[t].search.value.distances[i] < ScoreOne

\* ------------------------------------------------------------------------
\* Missing provider parameters (under Spec)
\* ------------------------------------------------------------------------
MissingStoreParameters ==
    config.VECTOR_DB_TYPE = "upstash" /\ ~config.UPSTASH_CREDENTIALS
MissingLlmParameters ==
    config.LLM_PROVIDER = "groq" /\ ~config.GROQ_API_KEY
RemoteCalls == {"getEmbedding", "query", "generateResponse"}
\* the request in slot s was made and passed its validation
Parsed(s) ==
    /\ req[s].fn # "none"
    /\ ~(Validates(req[s].fn) /\ req[s].question = EmptyQuestion)

\* C29: when the hosted store is selected without its URL or token, or the
\* hosted language model without its API key, every request that passes
\* validation, the first included, ends with {success: false} and the error
\* of the failing step, makes no remote call (embedding, store query,
\* language model) before it, and the step in which its
\* initializeProviders throws leaves the singletons reset.
C29_MissingParametersFailFast ==
    /\ [](\A s \in Slots :
            (Parsed(s) /\ (MissingStoreParameters \/ MissingLlmParameters)) =>
                /\ req[s].pc \in {"awaitInitialize", "done"}
                /\ req[s].did \cap RemoteCalls = {}
                /\ Finished(s) =>
                      /\ ~req[s].outcome.success
                      /\ MissingStoreParameters =>
                            req[s].outcome.error = InitializeError([kind |-> "upstash"]).message
                      /\ "createLlmProvider" \in req[s].did =>
                            req[s].outcome.error = GroqKeyError.message
                      /\ req[s].outcome.error \in
                            {InitializeError([kind |-> "upstash"]).message,
                             InitializeError([kind |-> "simple"]).message,
                             UnsupportedEmbeddingError.message,
                             GroqKeyError.message})
    /\ [][(MissingStoreParameters \/ MissingLlmParameters) =>
            \A s \in Slots : InitializeProvidersThrows(s) => AllReset'
        ]_vars

\* C29 witness: the hosted model's key is missing; the first request
\* initialised the store, failed in createLlmProvider and left the
\* singletons reset
C29_Witness ==
    \E s \in Slots :
        /\ MissingLlmParameters /\ ~MissingStoreParameters
        /\ req[s].id = 1 /\ Finished(s)
        /\ req[s].did = {"createVectorDatabase", "initialize",
                         "createEmbeddingProvider", "createLlmProvider"}
        /\ req[s].outcome = [success |-> FALSE, error |-> GroqKeyError.message]
        /\ AllReset
        /\ Len(dbObjs) = 1 /\ dbObjs[1].ready

\* ------------------------------------------------------------------------
\* Properties of loadFoodsData (under SpecLoad)
\* ------------------------------------------------------------------------
\* the Record shape: id and text strings, region and type strings or absent
IsString(v) == v.type = "string"
HasRecordShape(item) ==
    /\ item.kind = "object"
    /\ IsString(item.id) /\ IsString(item.text)
    /\ IsString(item.region) \/ item.region = Absent
    /\ IsString(item.type) \/ item.type = Absent
\* whether record r is the input item: the same id, text, region and type
SameRecord(r, item) ==
    /\ Str(r.id) = item.id
    /\ Str(r.text) = item.text
    /\ item.region = (IF r.region = "undefined" THEN Absent ELSE Str(r.region))
    /\ item.type = (IF r.type = "undefined" THEN Absent ELSE Str(r.type))
\* the places of the input items that have the Record shape
ShapedPlaces ==
    IF foodsFile.ok /\ foodsFile.json.kind = "array"
    THEN {k \in 1..Len(foodsFile.json.items) :
             HasRecordShape(foodsFile.json.items[k])}
    ELSE {}
\* the j-th of them
ShapedPlace(j) ==
    CHOOSE k \in ShapedPlaces : Cardinality({m \in ShapedPlaces : m <= k}) = j

\* C30: loadFoodsData returns exactly the input items that have the Record
\* shape, each as its record, in their original order; a collection that
\* contains invalid items still loads.
C30_InvalidRecordsDropped ==
    /\ (loaded # NoOutcome /\ foodsFile.ok /\ foodsFile.json.kind = "array") =>
          loaded.kind = "returned"
    /\ loaded.kind = "returned" =>
          /\ Len(loaded.value) = Cardinality(ShapedPlaces)
          /\ \A j \in 1..Len(loaded.value) :
                SameRecord(loaded.value[j], foodsFile.json.items[ShapedPlace(j)])

\* C30 witness: a record, an invalid item and another record were loaded as
\* the two records
C30_Witness ==
    /\ loaded.kind = "returned"
    /\ Len(foodsFile.json.items) = 3
    /\ ShapedPlaces = {1, 3}
    /\ Len(loaded.value) = 2
    /\ loaded.value[1] # loaded.value[2]

\* ------------------------------------------------------------------------
\* Properties of the page over the query actions (under SpecUI, SpecUIFair)
\* ------------------------------------------------------------------------
\* the state of the orchestrator the queryState shows
PhaseOf(qs) ==
    IF qs.error # None THEN "error"
    ELSE IF qs.llmResponse # None THEN "done"
    ELSE IF qs.isGenerating THEN "generating"
    ELSE IF qs.isSearching THEN "searching"
    ELSE IF qs.ragDetails # None THEN "searched"
    ELSE "idle"

\* the moves of the state machine; the page shows the results and starts
\* the generation in one update, and a new question starts from done or
\* error
PhaseMoves ==
    {<<"idle", "searching">>, <<"searching", "searched">>,
     <<"searched", "generating">>, <<"searching", "generating">>,
     <<"generating", "done">>,
     <<"searching", "error">>, <<"generating", "error">>,
     <<"done", "searching">>, <<"error", "searching">>}

FlagsExclusive == ~(queryState.isSearching /\ queryState.isGenerating)
ResultsOnlyAtRest ==
    (queryState.error # None \/ queryState.llmResponse # None) =>
        (~queryState.isSearching /\ ~queryState.isGenerating)
PhaseStep ==
    \/ queryState' = queryState
    \/ <<PhaseOf(queryState), PhaseOf(queryState')>> \in PhaseMoves

\* C23: the page's query state moves only along idle, searching, searched,
\* generating, done, with error entered only from searching or generating;
\* isSearching and isGenerating are never both true; error and llmResponse
\* are set only when both flags are false.
C23_StateMachine ==
    /\ []FlagsExclusive
    /\ []ResultsOnlyAtRest
    /\ [][PhaseStep]_vars

\* the request in slot s is the one flow s waits for or waited for last
Issued(s) == flow[s].rid = req[s].id /\ flow[s].rid # 0
LlmCalled(s) == "generateResponse" \in req[s].did

\* C24: the language model is called only after that question's search
\* returned at least one document, with exactly that search's documents as
\* its context, and never for a question whose search failed or was empty:
\* in ragQuery, and in the page's two steps.
C24_SearchPrecedesGeneration ==
    \A s \in Slots :
        /\ (req[s].fn = "ragQuery" /\ LlmCalled(s)) =>
              /\ Searched(s)
              /\ Len(req[s].search.value.documents) >= 1
              /\ req[s].pc = "awaitLlm" =>
                    req[s].prompt = Prompt(req[s].question,
                                           Join(req[s].search.value.documents))
        /\ flow[s].mode = "progressive" =>
              /\ "getLlmResponse" \in Range(flow[s].calls) =>
                    /\ flow[s].ragResult # None
                    /\ flow[s].ragResult[1].success
                    /\ Len(flow[s].ragResult[1].ragDetails.documents) >= 1
                    /\ flow[s].context =
                          Join(flow[s].ragResult[1].ragDetails.documents)
              /\ (flow[s].ragResult # None /\ ~flow[s].ragResult[1].success) =>
                    /\ flow[s].calls = <<"getRagSearchResults">>
                    /\ flow[s].pc = "done"
              /\ (Issued(s) /\ req[s].fn = "getLlmResponse") =>
                    /\ flow[s].calls = <<"getRagSearchResults", "getLlmResponse">>
                    /\ req[s].question = flow[s].question
                    /\ req[s].context = flow[s].context
                    /\ LlmCalled(s) =>
                          req[s].search = NoOutcome
                    /\ req[s].pc = "awaitLlm" =>
                          req[s].prompt = Prompt(flow[s].question, flow[s].context)
              /\ (Issued(s) /\ req[s].fn = "getRagSearchResults") =>
                    /\ ~LlmCalled(s)
                    /\ (Finished(s) /\ req[s].outcome.success) =>
                          /\ Searched(s)
                          /\ req[s].outcome.ragDetails.documents =
                                req[s].search.value.documents
                          /\ Len(req[s].search.value.documents) >= 1

\* C24 witness: the page's language-model call is waiting with the
\* document of its search as context while a ragQuery's call is waiting
\* with the two or more documents of its search in the prompt
C24_Witness ==
    \E s, t \in Slots :
        /\ flow[s].mode = "progressive" /\ Issued(s)
        /\ req[s].fn = "getLlmResponse" /\ req[s].pc = "awaitLlm"
        /\ req[s].context = flow[s].ragResult[1].ragDetails.documents
        /\ req[t].fn = "ragQuery" /\ req[t].pc = "awaitLlm"
        /\ Len(req[t].search.value.documents) >= 2

InFlight(f) == flow[f].pc \notin {"idle", "done"}
AtRest == \A f \in Slots : ~InFlight(f)
Settled ==
    /\ ~queryState.isSearching /\ ~queryState.isGenerating
    /\ queryState.llmResponse # None \/ queryState.error # None
\* the search of a question ended with the store's retries used up
ExhaustedErrors == {ExhaustedError(e) : e \in RemoteErrors}
StoreGaveUp ==
    \E f \in Slots :
        /\ flow[f].pc = "awaitSearch"
        /\ req[f].search \in {Threw(err) : err \in ExhaustedErrors}
ShowsGaveUp ==
    queryState.error \in {Some(ErrorMessage(err)) : err \in ExhaustedErrors}

\* C25: when every remote call eventually returns or fails, every
\* submitted question ends, and when none is left in flight the page shows
\* done or error: both flags false with llmResponse or error set; a search
\* whose store call failed on every attempt leads to the error of the
\* used-up retries.
C25_EveryQuestionTerminates ==
    /\ \A f \in Slots : (InFlight(f) ~> ~InFlight(f))
    /\ (\E f \in Slots : InFlight(f)) ~> (AtRest /\ Settled)
    /\ StoreGaveUp ~> ShowsGaveUp

\* C25 witness: two questions were submitted, the first of them ended in
\* the error of the used-up retries, the second with an answer
C25_Witness ==
    /\ AtRest /\ Settled
    /\ submits = 2
    /\ \A f \in Slots : flow[f].mode = "progressive"
    /\ \E f \in Slots : \E e \in RemoteErrors :
          /\ flow[f].ragResult # None
          /\ flow[f].ragResult[1] = Caught(ExhaustedError(e))
    /\ queryState.llmResponse # None

\* the lines a prompt for question and documents is expected to have
ExpectedPrompt(question, docs) ==
    << <<"Use the following context to answer the question.">>, <<>>,
       <<"Context:">> >>
    \o docs
    \o << <<>>, <<"Question:">> \o question, <<"Answer:">> >>
\* request s is a ragQuery waiting for the language model
CombinedAtLlm(s) == req[s].fn = "ragQuery" /\ req[s].pc = "awaitLlm"
\* request t is the getLlmResponse of a page flow, waiting for the model
TwoStepAtLlm(t) ==
    /\ flow[t].mode = "progressive" /\ Issued(t)
    /\ req[t].fn = "getLlmResponse" /\ req[t].pc = "awaitLlm"
RetrievedBy(t) == flow[t].ragResult[1].ragDetails.documents

QueriedHosted ==
    /\ upCall.op = "query"
    /\ attempts # <<>> /\ attempts[Len(attempts)].ok
    /\ upResult.kind = "returned"
\* the candidates the remote service gave that query, in its rank order
Candidates == attempts[Len(attempts)].raw
\* the candidates that state every attribute word of the query text
Stating(text, hits) ==
    SelectSeq(hits, LAMBDA h :
        \A w \in AttributeWords : includes(text, w) => includes(h.document, w))
FirstOf(s, n) == [i \in 1..(IF Len(s) < n THEN Len(s) ELSE n) |-> s[i]]

\* C32: a hosted query for nResults asks the remote service for 2*nResults
\* candidates and returns at most nResults of them in the service's rank
\* order; for a text query every returned document states, in any case,
\* each of the words yellow, sweet, fruit found in the query text; for a
\* vector query no candidate is filtered out.
C32_HostedQueryShaping ==
    QueriedHosted =>
        LET n == upCall.nResults
            result == upResult.value
            kept == IF IsText(upCall.query)
                    THEN Stating(upCall.query.data, Candidates)
                    ELSE Candidates
        IN  /\ upCall.options.topK = 2 * n
            /\ Len(Candidates) <= 2 * n
            /\ Len(result.documents) <= n
            /\ Len(result.ids) = Len(result.documents)
            /\ result.ids = [i \in 1..Len(FirstOf(kept, n)) |-> kept[i].id]
            /\ result.documents =
                  [i \in 1..Len(FirstOf(kept, n)) |-> kept[i].document]
            /\ IsText(upCall.query) =>
                  \A i \in 1..Len(result.documents) :
                      \A w \in AttributeWords :
                          includes(upCall.query.data, w) =>
                              includes(result.documents[i], w)

\* C32 witness: a text query for 2 records was given three candidates and
\* returned the one that states yellow and fruit
C32_Witness ==
    /\ QueriedHosted
    /\ IsText(upCall.query) /\ upCall.nResults = 2
    /\ Len(Candidates) = 3
    /\ upResult.value.ids = <<"1">>

\* C33 as stated: in every reachable state of the query module and of the
\* ingestion module, whatever the interleaving of requests at their await
\* points and whichever initialisations fail, isInitialized true implies
\* that the store handle is set and is a store whose initialize() has
\* completed successfully.
C33_FlagConsistency ==
    /\ isInitialized =>
          /\ dbInstance # nil
          /\ dbObjs[dbInstance].ready
    /\ ingestInitialized =>
          /\ ingestDb # nil
          /\ ingestObjs[ingestDb].ready

\* this step starts an invocation of handleQuestionSubmit
StartsQuestion ==
    \E f \in Slots : flow[f].pc # "callSearch" /\ flow'[f].pc = "callSearch"
\* no invocation of handleQuestionSubmit was given a blank question
NoBlankQuestion ==
    \A f \in Slots :
        flow[f].mode = "progressive" =>
            /\ flow[f].question # <<>>
            /\ flow[f].question = Trim(flow[f].question)

\* C35 as stated: while a question is searching or generating (isLoading,
\* or the transition pending) no button click and no Ctrl/Cmd+Enter starts
\* another handleQuestionSubmit, and a question that is empty after
\* trimming is never submitted.
C35_OneQuestionInFlight ==
    /\ [][(isLoading \/ isPending) => ~StartsQuestion]_vars
    /\ []NoBlankQuestion

\* this step is invocation f of handleQuestionSubmit writing what its
\* search or its generation gave (results, answer or error) to queryState
Delivers(f) ==
    /\ flow[f].mode = "progressive"
    /\ flow[f].pc \in {"callSearch", "awaitSearch", "callLlm", "awaitLlm"}
    /\ flow'[f].pc \in {"callLlm", "done"}
    /\ flow'[f].pc # flow[f].pc
\* what the page shows of a question's outcome
Shown(qs) == <<qs.ragDetails, qs.llmResponse, qs.error>>

\* C34 as stated: the ragDetails, llmResponse and error held in queryState
\* were produced for the question held in it, also when a second question
\* is submitted while an earlier one is searching or generating: results,
\* answer and error are written only by the invocation of the question
\* shown, and a question whose search can find nothing never shows results.
C34_ResultsBelongToQuestion ==
    /\ [][\A f \in Slots :
            Delivers(f) =>
                /\ flow[f].question = queryState.question
                /\ queryState'.question = flow[f].question]_vars
    /\ [](queryState.question = SweetQuestion => queryState.ragDetails = None)

\* a step in which the request in slot s fails in validation, in the
\* vector search or in the generation
FailsAfterInitialize(s) ==
    /\ req'[s] # req[s]
    /\ req'[s].pc = "done" /\ ~req'[s].outcome.success
    /\ \/ req[s].pc \in {"idle", "done"} /\ req'[s].outcome = Caught(ZodError)
       \/ req[s].pc = "awaitQuery"
       \/ req[s].pc = "awaitLlm"
\* a step in which an entry point is called in slot s and gets past its
\* validation
Enters(s) ==
    /\ req[s].pc \in {"idle", "done"}
    /\ req'[s].id # req[s].id
    /\ req'[s].outcome # Caught(ZodError)
SingletonsKept ==
    /\ dbInstance' = dbInstance
    /\ embeddingInstance' = embeddingInstance
    /\ llmInstance' = llmInstance
    /\ isInitialized' = isInitialized
    /\ dbObjs' = dbObjs

\* C36: once the providers are initialised, a request that fails in
\* validation, in the vector search (used-up retries and the empty result
\* included) or in the generation leaves the three handles, the store
\* object and isInitialized as they were, and a request that starts then
\* gets the same three instances without constructing or initialising
\* anything.
C36_FailuresKeepSingletons ==
    [][Built =>
          \A s \in Slots :
              /\ FailsAfterInitialize(s) => SingletonsKept
              /\ Enters(s) =>
                    /\ SingletonsKept
                    /\ req'[s].pc = "awaitProviders"
                    /\ req'[s].db = dbInstance
                    /\ req'[s].embedding = embeddingInstance
                    /\ req'[s].llm = llmInstance
                    /\ req'[s].did \cap ConstructionSteps = {}
      ]_vars

\* C36 witness: the first request built the providers and failed with its
\* store's retries used up; the second got the instances the first built
C36_Witness ==
    \E s, t \in Slots :
        /\ Built
        /\ req[s].id = 1 /\ Finished(s) /\ ~req[s].outcome.success
        /\ req[s].search \in {Threw(err) : err \in ExhaustedErrors}
        /\ req[t].id = 2 /\ req[t].pc = "awaitProviders"
        /\ req[t].db = dbInstance /\ req[t].did = {}
        /\ dbObjs[dbInstance].initBy = {1}

\* the call of getExistingIds the job made, once it has settled
Listing == CHOOSE k \in 1..Len(job.calls) : job.calls[k].op = "getExistingIds"
\* the adapter on its own: a probe on the initialised adapter never throws,
\* and gives the empty list when its three attempts failed
ProbeDegrades ==
    (upCall.op = "probe" /\ index # null /\ upPc = "idle") =>
        /\ upResult.kind = "returned"
        /\ (Len(attempts) = RETRY_COUNT /\ ~attempts[RETRY_COUNT].ok) =>
              upResult = Returned(<<>>)

\* C37: getExistingIds of the initialised hosted adapter never fails and
\* gives the empty list when its probe failed on every attempt; a run
\* without force that got no ids treats every record as new and hands the
\* whole record set to the store, and does not end in an error because of
\* the listing.
C37_ExistingIdsDegrade ==
    (config.VECTOR_DB_TYPE = "upstash" /\ ~job.force /\ ListedIds) =>
        /\ job.calls[Listing].settled = "returned"
        /\ job.calls[Listing].probe = "thrown" => job.existingIds = <<>>
        /\ job.existingIds = <<>> =>
              /\ job.newItems = job.foods
              /\ HandedIds(Adds) = SubSeq(FoodIds, 1, Len(HandedIds(Adds)))
              /\ job.foods # <<>> => Adds # <<>>
              /\ RunSucceeded => HandedIds(Adds) = FoodIds
              /\ (job.pc = "done" /\ ~job.outcome.success) =>
                    /\ job.calls[Len(job.calls)].op = "addDocuments"
                    /\ job.outcome.error \in
                          {ErrorMessage(err) : err \in ExhaustedErrors}

\* C37 witness: the index holds six records, the probe of a run without
\* force failed on every attempt, and the run handed all six to the store
\* again and succeeded
C37_Witness ==
    /\ config.VECTOR_DB_TYPE = "upstash" /\ ~job.force /\ ListedIds
    /\ job.calls[Listing].probe = "thrown"
    /\ Len(job.foods) = 6 /\ Len(remoteIndex) = 6
    /\ RunSucceeded
    /\ HandedIds(Adds) = FoodIds

\* what the store of the ingestion holds, as records of id and text: the
\* vectors of the hosted index, the documents of the local store's file
HeldRecords ==
    IF config.VECTOR_DB_TYPE = "upstash"
    THEN [k \in 1..Len(remoteIndex) |->
             [id |-> remoteIndex[k].id, text |-> remoteIndex[k].data]]
    ELSE IF dataFile.exists
         THEN [k \in 1..Len(DocumentsOf(dataFile)) |->
                  [id |-> DocumentsOf(dataFile)[k].id,
                   text |-> DocumentsOf(dataFile)[k].text]]
         ELSE <<>>
OnePerId ==
    Cardinality({HeldRecords[k].id : k \in 1..Len(HeldRecords)}) = Len(HeldRecords)
\* the store holds every record of foods, with its text as ingested
Covers(foods) ==
    \A k \in 1..Len(foods) :
        [id |-> foods[k].id, text |-> EnrichedText(foods[k])] \in Range(HeldRecords)

\* C38: the store never holds two records of one id; after a successful
\* run it holds every record of the record set with the text ingested for
\* it; and once it does, no step of any further run over that record set,
\* forced or not, with a complete or incomplete list of existing ids,
\* changes the set of ids or the text of any id.
C38_IngestionIdempotent ==
    /\ []OnePerId
    /\ [](RunSucceeded => Covers(job.foods))
    /\ [][Covers(job.foods) => Range(HeldRecords') = Range(HeldRecords)]_vars

\* C38 witness: in a second run over six records, on a hosted index that
\* holds the six, the listing gave one id only; the run handed the other
\* five to the store again and the index still holds six records
C38_Witness ==
    /\ jobs = 2 /\ RunSucceeded
    /\ ~job.force /\ Len(job.existingIds) = 1
    /\ Len(job.foods) = 6 /\ Len(HandedIds(Adds)) = 5
    /\ Len(HeldRecords) = 6 /\ Covers(job.foods)

\* a step in which the request in slot s calls db.query
CallsQuery(s) == req[s].pc # "awaitQuery" /\ req'[s].pc = "awaitQuery"
\* the records the store object of that call holds, by id and text
SearchedRecords(s) ==
    {[id |-> req'[s].query.docs[k].id, text |-> req'[s].query.docs[k].text] :
        k \in 1..Len(req'[s].query.docs)}

\* C39 as stated: on the local store, once an ingestion run has completed
\* successfully, every question asked from then on is searched against a
\* record set that includes the ingested records, whichever of the query
\* module and the ingestion module initialised its store first.
C39_IngestedVisible ==
    [][\A s \in Slots :
          (RunSucceeded /\ CallsQuery(s)) =>
              \A k \in 1..Len(job.foods) :
                  [id |-> job.foods[k].id,
                   text |-> EnrichedText(job.foods[k])] \in SearchedRecords(s)
      ]_vars

\* a call of getEmbeddingStatus has returned success
StatusReturned ==
    job.fn = "getEmbeddingStatus" /\ job.pc = "done" /\ job.outcome.success

\* C40 as stated: for any record set and any store contents a successful
\* getEmbeddingStatus returns total = the number of valid records,
\* embedded = the number of existing ids, remaining = total - embedded and
\* percentage = round(100 * embedded / total), with remaining never
\* negative and percentage always within 0..100.
C40_StatusConsistent ==
    StatusReturned =>
        LET st == job.outcome
        IN  /\ st.total = Len(job.foods)
            /\ st.embedded = Len(job.existingIds)
            /\ st.remaining = st.total - st.embedded
            /\ st.remaining >= 0
            /\ st.percentage.kind = "number"
            /\ st.percentage.value \in 0..100
            /\ 2 * st.total * st.percentage.value <= 200 * st.embedded + st.total
            /\ 200 * st.embedded + st.total < 2 * st.total * (st.percentage.value + 1)

====
